---- MODULE Spec2Model ----
(***************************************************************************)
(* Model of the AMANA programs (tawf-labs/amana-reserve, packages/solana): *)
(*   amana-reserve  the capital ledger and the activity lifecycle          *)
(*   amana-hai      the composite score (HAI)                              *)
(*   amana-dao      proposals, voting and the Sharia board                 *)
(*   amana-actions  the automatic compliance / score / profit actions      *)
(*                                                                         *)
(* Every instruction is one atomic step.  An instruction that returns Err  *)
(* (or panics) is rolled back by the runtime: it changes no account, and   *)
(* only `result` records what was called and how it ended.                 *)
(*                                                                         *)
(* Instructions are modelled on the accounts the caller passes in: the     *)
(* model keeps which accounts exist (`init` fails on an existing account); *)
(* the seeds of the proposal addresses are modelled apart from the         *)
(* handlers (create_seed, access_seed).                                    *)
(*                                                                         *)
(* The programs share no account, so each has its own specification        *)
(* (SpecLedger and SpecReserve, SpecHai, SpecDao, SpecActions); the        *)
(* variables of the other programs stay at their initial value.            *)
(***************************************************************************)
EXTENDS Integers, Sequences, FiniteSets, TLC

VARIABLES
    reserve,          \* amana-reserve: the Reserve account
    participants,     \* amana-reserve: Participant account per user
    activities,       \* amana-reserve: Activity account per activity id
    lamports,         \* lamports held by the Reserve account
    wallet,           \* lamports held by each user
    overflow_checks,  \* whether the build traps on integer overflow
    hai,              \* amana-hai: the Hai account
    metrics,          \* amana-hai: the activity ids with an ActivityMetrics account
    snapshots,        \* amana-hai: HaiSnapshot account per seed
    dao,              \* amana-dao: the Dao account
    proposals,        \* amana-dao: Proposal accounts
    reviews,          \* amana-dao: ShariaReview accounts
    action_activity,  \* amana-actions: the Activity accounts passed to the actions
    compliance_state, \* amana-actions: ComplianceState accounts
    hai_state,        \* amana-actions: the HaiState account
    action_reserve,   \* amana-actions: the Reserve account
    now,              \* Clock::get()?.unix_timestamp
    result            \* the last instruction and how it ended

vars == <<reserve, participants, activities, lamports, wallet, overflow_checks,
          hai, metrics, snapshots, dao, proposals, reviews, action_activity, compliance_state,
          hai_state, action_reserve, now, result>>

reserveVars == <<reserve, participants, activities, lamports, wallet>>
haiVars == <<hai, metrics, snapshots>>
daoVars == <<dao, proposals, reviews>>
actionsVars == <<action_activity, compliance_state, hai_state, action_reserve>>

(***************************************************************************)
(* Integer widths.  The 64-bit integers of the programs are scaled to      *)
(* U64Bits bits, so that the overflow of a balance is within reach of the  *)
(* amounts below; u16 and i16 keep their width.                            *)
(***************************************************************************)
U64Bits == 11

U64_MAX == 2^U64Bits - 1
I64_MAX == 2^(U64Bits - 1) - 1
I64_MIN == -(2^(U64Bits - 1))
U16_MAX == 65535
I16_MAX == 32767
I16_MIN == -32768

None == -1

\* u64::checked_add / checked_sub: None on overflow.
checked_add(a, b) == IF a = None \/ b = None \/ a + b > U64_MAX THEN None ELSE a + b
checked_sub(a, b) == IF a = None \/ b = None \/ a - b < 0 THEN None ELSE a - b
checked_mul(a, b) == IF a = None \/ b = None \/ a * b > U64_MAX THEN None ELSE a * b
checked_div(a, b) == IF a = None \/ b = None \/ b = 0 THEN None ELSE a \div b

\* `a += b` on a u64 in a build without overflow checks.
wrapping_add(a, b) == (a + b) % (U64_MAX + 1)

Min(a, b) == IF a < b THEN a ELSE b

Res(op, err) == [op |-> op, err |-> err]


(***************************************************************************)
(* amana-reserve                                                           *)
(***************************************************************************)
Users == {"u1", "u2", "u3"}
ActivityIds == {"a1", "a2"}

\* Arguments of initialize, and the funds each user starts with.
MinContribution == 500
MaxParticipants == 2
WalletInit == 1000
RentExemptMin == 1

\* Arguments the instructions are called with.
Amounts == {0, 500, 1000}
CapitalAmounts == {0, 600}
RealtimeAmounts == {400}
Outcomes == {120, 0, -100, -700, I64_MAX}

NoParticipant ==
    [exists |-> FALSE, capital_contributed |-> 0, profit_share |-> 0,
     loss_share |-> 0, is_active |-> FALSE, joined_at |-> 0]

NoActivity ==
    [exists |-> FALSE, initiator |-> "none", capital_required |-> 0,
     capital_deployed |-> 0, status |-> "Proposed", created_at |-> 0,
     completed_at |-> 0, outcome |-> 0, is_validated |-> FALSE]

\* The accounts of amana-reserve as one value, and an instruction's outcome.
ReserveState ==
    [reserve |-> reserve, participants |-> participants, activities |-> activities,
     lamports |-> lamports, wallet |-> wallet]

Fail(e) == [err |-> e, st |-> ReserveState]
Done(st) == [err |-> "Ok", st |-> st]

initialize_reserve(min_capital_contribution, max_participants) ==
    [min_capital_contribution |-> min_capital_contribution,
     max_participants |-> max_participants,
     total_capital |-> 0,
     participant_count |-> 0,
     is_initialized |-> TRUE]

\* `reserve.total_capital += amount`: traps or wraps, as the build decides.
unchecked_add(a, b) ==
    IF a + b > U64_MAX
    THEN (IF overflow_checks THEN None ELSE wrapping_add(a, b))
    ELSE a + b

join_reserve(user, amount) ==
    LET total == unchecked_add(reserve.total_capital, amount)
        count == unchecked_add(reserve.participant_count, 1)
    IN
    IF participants[user].exists THEN Fail("AccountInUse")
    ELSE IF ~(amount >= reserve.min_capital_contribution)
    THEN Fail("InsufficientContribution")
    ELSE IF ~(reserve.participant_count < reserve.max_participants)
    THEN Fail("MaxParticipantsReached")
    ELSE IF wallet[user] < amount THEN Fail("TransferFailed")
    ELSE IF total = None \/ count = None THEN Fail("Panic")
    ELSE Done([ReserveState EXCEPT
            !.wallet[user] = @ - amount,
            !.lamports = @ + amount,
            !.participants[user] =
                [exists |-> TRUE, capital_contributed |-> amount, profit_share |-> 0,
                 loss_share |-> 0, is_active |-> TRUE, joined_at |-> now],
            !.reserve.total_capital = total,
            !.reserve.participant_count = count])

\* Mutant of capital_valid: the requirement is not compared with total_capital.
capital_valid_unbounded(capital_required, total_capital) == capital_required > 0

\* The requirement of propose_activity on capital_required.
capital_valid(capital_required, total_capital) ==
    capital_required > 0 /\ capital_required <= total_capital

propose_activity(user, activity_id, capital_required) ==
    IF ~participants[user].exists THEN Fail("AccountNotInitialized")
    ELSE IF ~participants[user].is_active THEN Fail("InactiveParticipant")
    ELSE IF activities[activity_id].exists THEN Fail("AccountInUse")
    ELSE IF ~capital_valid(capital_required, reserve.total_capital)
    THEN Fail("InvalidCapitalAmount")
    ELSE Done([ReserveState EXCEPT
            !.activities[activity_id] =
                [exists |-> TRUE, initiator |-> user,
                 capital_required |-> capital_required, capital_deployed |-> 0,
                 status |-> "Proposed", created_at |-> now, completed_at |-> 0,
                 outcome |-> 0, is_validated |-> FALSE]])

\* Mutant of approve_from: approve_activity without its status check.
approve_from_any(status) == TRUE

\* The status approve_activity starts from.
approve_from(status) == status = "Proposed"

approve_activity(activity_id) ==
    LET activity == activities[activity_id]
        total == checked_sub(reserve.total_capital, activity.capital_required)
    IN
    IF ~activity.exists THEN Fail("AccountNotInitialized")
    ELSE IF ~approve_from(activity.status) THEN Fail("InvalidActivityStatus")
    ELSE IF total = None THEN Fail("MathOverflow")
    ELSE Done([ReserveState EXCEPT
            !.activities[activity_id].status = "Approved",
            !.activities[activity_id].capital_deployed = activity.capital_required,
            !.reserve.total_capital = total])

\* The status complete_activity starts from.
complete_from(status) == status = "Approved"

\* i64::unsigned_abs
unsigned_abs(x) == IF x < 0 THEN -x ELSE x

\* Mutant of settle: a loss is subtracted even when it exceeds the returned capital.
settle_uncapped(total_capital, returned_capital, outcome) ==
    IF outcome > 0
    THEN checked_add(checked_add(total_capital, returned_capital), outcome)
    ELSE IF outcome < 0
    THEN checked_sub(checked_add(total_capital, returned_capital), unsigned_abs(outcome))
    ELSE checked_add(total_capital, returned_capital)

\* The new total_capital of complete_activity (None: MathOverflow).
settle(total_capital, returned_capital, outcome) ==
    IF outcome > 0
    THEN checked_add(checked_add(total_capital, returned_capital), outcome)
    ELSE IF outcome < 0
    THEN (IF unsigned_abs(outcome) < returned_capital
          THEN checked_sub(checked_add(total_capital, returned_capital),
                           unsigned_abs(outcome))
          ELSE total_capital)
    ELSE checked_add(total_capital, returned_capital)

complete_activity(activity_id, outcome) ==
    LET activity == activities[activity_id]
        total == settle(reserve.total_capital, activity.capital_deployed, outcome)
    IN
    IF ~activity.exists THEN Fail("AccountNotInitialized")
    ELSE IF ~complete_from(activity.status) THEN Fail("InvalidActivityStatus")
    ELSE IF total = None THEN Fail("MathOverflow")
    ELSE Done([ReserveState EXCEPT
            !.activities[activity_id].status = "Completed",
            !.activities[activity_id].completed_at = now,
            !.activities[activity_id].outcome = outcome,
            !.activities[activity_id].is_validated = TRUE,
            !.reserve.total_capital = total])

deposit_capital(user, amount) ==
    LET participant == participants[user]
        contributed == checked_add(participant.capital_contributed, amount)
        total == checked_add(reserve.total_capital, amount)
    IN
    IF ~participant.exists THEN Fail("AccountNotInitialized")
    ELSE IF ~participant.is_active THEN Fail("InactiveParticipant")
    ELSE IF ~(amount > 0) THEN Fail("InvalidAmount")
    ELSE IF wallet[user] < amount THEN Fail("TransferFailed")
    ELSE IF contributed = None \/ total = None THEN Fail("MathOverflow")
    ELSE Done([ReserveState EXCEPT
            !.wallet[user] = @ - amount,
            !.lamports = @ + amount,
            !.participants[user].capital_contributed = contributed,
            !.reserve.total_capital = total])

withdraw_capital(user, amount) ==
    LET participant == participants[user]
        contributed == checked_sub(participant.capital_contributed, amount)
        total == checked_sub(reserve.total_capital, amount)
        reserve_balance == lamports
    IN
    IF ~participant.exists THEN Fail("AccountNotInitialized")
    ELSE IF ~participant.is_active THEN Fail("InactiveParticipant")
    ELSE IF ~(amount > 0) THEN Fail("InvalidAmount")
    ELSE IF ~(amount <= participant.capital_contributed) THEN Fail("InsufficientBalance")
    ELSE IF ~(amount <= reserve_balance) THEN Fail("InsufficientLiquidity")
    ELSE IF contributed = None \/ total = None THEN Fail("MathOverflow")
    ELSE Done([ReserveState EXCEPT
            !.participants[user].capital_contributed = contributed,
            !.reserve.total_capital = total,
            !.lamports = @ - amount,
            !.wallet[user] = @ + amount])

deploy_capital_realtime(activity_id, amount) ==
    LET activity == activities[activity_id] IN
    IF ~activity.exists THEN Fail("AccountNotInitialized")
    ELSE IF ~(amount <= reserve.total_capital) THEN Fail("InsufficientCapital")
    ELSE Done([ReserveState EXCEPT
            !.activities[activity_id].capital_deployed = amount,
            !.activities[activity_id].status = "Active",
            !.reserve.total_capital = @ - amount])

\* An instruction of amana-reserve as a step.
ReserveStep(op, o) ==
    /\ reserve' = o.st.reserve
    /\ participants' = o.st.participants
    /\ activities' = o.st.activities
    /\ lamports' = o.st.lamports
    /\ wallet' = o.st.wallet
    /\ result' = Res(op, o.err)
    /\ UNCHANGED <<overflow_checks, haiVars, daoVars, actionsVars, now>>

JoinReserve(user, amount) == ReserveStep("join_reserve", join_reserve(user, amount))

ProposeActivity(user, activity_id, capital_required) ==
    ReserveStep("propose_activity", propose_activity(user, activity_id, capital_required))

ApproveActivity(activity_id) ==
    ReserveStep("approve_activity", approve_activity(activity_id))

CompleteActivity(activity_id, outcome) ==
    ReserveStep("complete_activity", complete_activity(activity_id, outcome))

DepositCapital(user, amount) ==
    ReserveStep("deposit_capital", deposit_capital(user, amount))

WithdrawCapital(user, amount) ==
    ReserveStep("withdraw_capital", withdraw_capital(user, amount))

DeployCapitalRealtime(activity_id, amount) ==
    ReserveStep("deploy_capital_realtime", deploy_capital_realtime(activity_id, amount))

(***************************************************************************)
(* amana-hai                                                               *)
(***************************************************************************)
MaxNow == 2

MetricIds == {1, 2}

\* Arguments the instructions are called with.
InitialScores == {0, 5000, 10001, 65535}
WeightTuples ==
    {<<4000, 2500, 2000, 1500>>, <<10000, 0, 0, 0>>,
     <<0, 0, 0, 10000>>, <<0, 0, 0, 0>>, <<4000, 2500, 2000, 1499>>,
     <<5000, 5000, 0, 1>>, <<65535, 10001, 0, 0>>}
ComplianceDeltas == {I16_MIN, -7000, 7000, I16_MAX}
DataSources == {<< >>, <<7>>, <<7, 7, 9>>, <<1, 2, 3, 4>>}

\* amana-hai initialize: the weights are not assigned and keep the zero
\* of a fresh account.
initialize_hai(initial_score) ==
    [current_score |-> initial_score,
     total_activities |-> 0,
     compliant_activities |-> 0,
     asset_backed_activities |-> 0,
     economic_value_activities |-> 0,
     snapshot_count |-> 0,
     compliance_weight |-> 0,
     asset_backing_weight |-> 0,
     economic_value_weight |-> 0,
     validator_participation_weight |-> 0]

\* Mutant of component_score: the count is not divided by the total.
component_score_undivided(count, total) == count * 10000

\* count * 10000 / total in u64.  The counters are at most 3 here,
\* far from the overflow of checked_mul.
component_score(count, total) == (count * 10000) \div total

\* calculate_hai_score.  The products are at most 10000 * 65535, within u64.
calculate_hai_score(h) ==
    IF h.total_activities = 0 THEN h.current_score
    ELSE LET total == h.total_activities
             compliance_score == component_score(h.compliant_activities, total)
             asset_backing_score == component_score(h.asset_backed_activities, total)
             economic_value_score == component_score(h.economic_value_activities, total)
             validator_participation_score == 8000
             score == (compliance_score * h.compliance_weight) \div 10000
                      + (asset_backing_score * h.asset_backing_weight) \div 10000
                      + (economic_value_score * h.economic_value_weight) \div 10000
                      + (validator_participation_score
                            * h.validator_participation_weight) \div 10000
         IN Min(score, 10000)

Contains(seq, x) == \E i \in 1..Len(seq) : seq[i] = x

RECURSIVE select_from(_, _, _, _, _)
select_from(sources, randomness, i, n, selected) ==
    IF i >= n THEN selected
    ELSE LET index == (randomness + i) % Len(sources)
             src == sources[index + 1]
         IN select_from(sources, randomness, i + 1, n,
                        IF Contains(selected, src) THEN selected
                        ELSE Append(selected, src))

select_data_sources_with_randomness(sources, randomness) ==
    IF Len(sources) = 0 THEN << >>
    ELSE LET selection_count == (randomness % 3) + 1
         IN select_from(sources, randomness, 0, Min(selection_count, Len(sources)), << >>)

\* `base_score + source_modifier` on u16: traps or wraps, as the build decides
\* (None: the instruction panics).
calculate_hai_score_with_sources(h, sources) ==
    IF Len(sources) = 0 THEN calculate_hai_score(h)
    ELSE LET base_score == calculate_hai_score(h)
             source_modifier == Len(sources) * 50
             sum == base_score + source_modifier
         IN IF sum > U16_MAX
            THEN (IF overflow_checks THEN None ELSE Min(sum % (U16_MAX + 1), 10000))
            ELSE Min(sum, 10000)

\* Mutant of total_weight: the sum computed in u16, wrapping.
total_weight_u16(w) == (w[1] + w[2] + w[3] + w[4]) % (U16_MAX + 1)

\* The sum update_weights compares with 10000, computed in u32.
total_weight(w) == w[1] + w[2] + w[3] + w[4]

weights_valid(w) == total_weight(w) = 10000

HaiFail(e) == [err |-> e, hai |-> hai, metrics |-> metrics]
HaiDone(h, m) == [err |-> "Ok", hai |-> h, metrics |-> m]

track_activity(activity_id, is_compliant, is_asset_backed, has_real_economic_value) ==
    LET h1 == [hai EXCEPT
                !.total_activities = @ + 1,
                !.compliant_activities = IF is_compliant THEN @ + 1 ELSE @,
                !.asset_backed_activities = IF is_asset_backed THEN @ + 1 ELSE @,
                !.economic_value_activities =
                    IF has_real_economic_value THEN @ + 1 ELSE @]
    IN
    IF activity_id \in metrics THEN HaiFail("AccountInUse")
    ELSE HaiDone([h1 EXCEPT !.current_score = calculate_hai_score(h1)],
                 metrics \cup {activity_id})

update_weights(w) ==
    LET h1 == [hai EXCEPT
                !.compliance_weight = w[1],
                !.asset_backing_weight = w[2],
                !.economic_value_weight = w[3],
                !.validator_participation_weight = w[4]]
    IN
    IF ~weights_valid(w) THEN HaiFail("InvalidWeights")
    ELSE HaiDone([h1 EXCEPT !.current_score = calculate_hai_score(h1)], metrics)

update_hai_score_with_vrf(data_sources) ==
    LET pseudo_randomness == now % 100
        selected_sources ==
            select_data_sources_with_randomness(data_sources, pseudo_randomness)
        new_score == calculate_hai_score_with_sources(hai, selected_sources)
    IN
    IF new_score = None THEN HaiFail("Panic")
    ELSE HaiDone([hai EXCEPT !.current_score = new_score], metrics)

saturating_add_u16(a, b) == Min(a + b, U16_MAX)
saturating_sub_u16(a, b) == IF a - b < 0 THEN 0 ELSE a - b

\* `(-compliance_delta) as u16`: the negation of i16::MIN traps or wraps.
neg_as_u16(delta) ==
    IF delta = I16_MIN
    THEN (IF overflow_checks THEN None ELSE -I16_MIN)
    ELSE -delta

\* The score after a signed adjustment (None: the instruction panics).
apply_delta(score, delta) ==
    IF delta >= 0 THEN Min(saturating_add_u16(score, delta), 10000)
    ELSE IF neg_as_u16(delta) = None THEN None
    ELSE Min(saturating_sub_u16(score, neg_as_u16(delta)), 10000)

update_hai_realtime(compliance_delta) ==
    LET new_score == apply_delta(hai.current_score, compliance_delta) IN
    IF new_score = None THEN HaiFail("Panic")
    ELSE HaiDone([hai EXCEPT !.current_score = new_score], metrics)

HaiStep(op, o) ==
    /\ hai' = o.hai
    /\ metrics' = o.metrics
    /\ result' = Res(op, o.err)
    /\ UNCHANGED <<reserveVars, overflow_checks, snapshots, daoVars, actionsVars, now>>

TrackActivity(activity_id, c, a, e) ==
    HaiStep("track_activity", track_activity(activity_id, c, a, e))

UpdateWeights(w) == HaiStep("update_weights", update_weights(w))

UpdateHaiScoreWithVrf(data_sources) ==
    HaiStep("update_hai_score_with_vrf", update_hai_score_with_vrf(data_sources))

UpdateHaiRealtime(compliance_delta) ==
    HaiStep("update_hai_realtime", update_hai_realtime(compliance_delta))

\* Seeds a HaiSnapshot account can be opened at.
SnapshotSeeds == {0, 1}
NoSnapshot ==
    [exists |-> FALSE, score |-> 0, total_activities |-> 0, compliant_activities |-> 0,
     asset_backed_activities |-> 0, timestamp |-> 0, snapshot_id |-> 0]

\* The seed of the address create_snapshot opens the snapshot account at.
snapshot_seed(h) == h.snapshot_count

\* create_snapshot: `init` refuses a seed whose account exists; the handler
\* copies the score and the counters and leaves the Hai account as it is.
create_snapshot ==
    LET seed == snapshot_seed(hai) IN
    IF snapshots[seed].exists
    THEN [err |-> "AccountInUse", hai |-> hai, snapshots |-> snapshots]
    ELSE [err |-> "Ok",
          hai |-> hai,
          snapshots |-> [snapshots EXCEPT ![seed] =
                [exists |-> TRUE,
                 score |-> hai.current_score,
                 total_activities |-> hai.total_activities,
                 compliant_activities |-> hai.compliant_activities,
                 asset_backed_activities |-> hai.asset_backed_activities,
                 timestamp |-> now,
                 snapshot_id |-> hai.snapshot_count]]]

CreateSnapshot ==
    LET o == create_snapshot IN
    /\ hai' = o.hai
    /\ snapshots' = o.snapshots
    /\ result' = Res("create_snapshot", o.err)
    /\ UNCHANGED <<reserveVars, overflow_checks, metrics, daoVars, actionsVars, now>>

(***************************************************************************)
(* amana-dao                                                               *)
(***************************************************************************)
\* Arguments of initialize.
VotingDelay == 1
VotingPeriod == 1

Members == {"m1", "m2"}
VoteTypes == {"For", "Against", "Abstain"}
VoteWeights == {0, 1500}

\* Proposal accounts are created one after the other; key k holds the k-th.
ProposalKeys == {1, 2}

initialize_dao(voting_delay, voting_period) ==
    [voting_delay |-> voting_delay,
     voting_period |-> voting_period,
     proposal_count |-> 0]

NoProposal ==
    [exists |-> FALSE, proposal_id |-> 0, affects_sharia |-> FALSE,
     status |-> "Pending", created_at |-> 0, voting_starts_at |-> 0,
     voting_ends_at |-> 0, for_votes |-> 0, against_votes |-> 0,
     abstain_votes |-> 0, sharia_approved |-> FALSE]

DaoState == [dao |-> dao, proposals |-> proposals, reviews |-> reviews]
DaoFail(e) == [err |-> e, st |-> DaoState]
DaoDone(st) == [err |-> "Ok", st |-> st]

\* The seed of the address create_proposal opens the proposal account at:
\* `dao.proposal_count` as the account constraints read it, before the handler
\* increments it.
create_seed(proposal_count) == proposal_count

\* The seed vote, sharia_review, execute_proposal and cancel_proposal derive
\* the address of the proposal account from: its stored proposal_id.
access_seed(proposal) == proposal.proposal_id

\* Mutant of initial_sharia_approved: every proposal starts approved.
initial_sharia_approved_always(affects_sharia) == TRUE

\* sharia_approved of a new proposal: `!affects_sharia`.
initial_sharia_approved(affects_sharia) == ~affects_sharia

create_proposal(affects_sharia) ==
    LET count == checked_add(dao.proposal_count, 1)
        created_at == now
        voting_starts_at == created_at + dao.voting_delay
    IN
    IF count = None THEN DaoFail("MathOverflow")
    ELSE DaoDone([DaoState EXCEPT
            !.dao.proposal_count = count,
            !.proposals[count] =
                [exists |-> TRUE, proposal_id |-> count,
                 affects_sharia |-> affects_sharia, status |-> "Pending",
                 created_at |-> created_at,
                 voting_starts_at |-> voting_starts_at,
                 voting_ends_at |-> voting_starts_at + dao.voting_period,
                 for_votes |-> 0, against_votes |-> 0, abstain_votes |-> 0,
                 sharia_approved |-> initial_sharia_approved(affects_sharia)]])

\* Mutant of tally_of: every vote is counted as a vote for.
tally_of_for(vote_type) == "for_votes"

\* The tally field a vote type is added to.
tally_of(vote_type) ==
    CASE vote_type = "For" -> "for_votes"
      [] vote_type = "Against" -> "against_votes"
      [] vote_type = "Abstain" -> "abstain_votes"

\* Mutant of discard_changes: what the instruction wrote before its error stays.
keep_changes(st, e) == [err |-> e, st |-> st]

\* An instruction that returns Err after it wrote to its accounts: the runtime
\* discards what it wrote.
discard_changes(st, e) == DaoFail(e)

\* Mutant of window_open: votes are taken at any time.
window_open_always(clock, voting_ends_at) == TRUE

\* `clock.unix_timestamp <= proposal.voting_ends_at`: the window of vote.
window_open(clock, voting_ends_at) == clock <= voting_ends_at

\* vote.  A Pending proposal is made Active before the end of the voting window
\* and the tally are checked.
vote(k, vote_type, weight) ==
    LET proposal == proposals[k]
        field == tally_of(vote_type)
        tally == checked_add(proposal[field], weight)
        promoted == [DaoState EXCEPT !.proposals[k].status = "Active"]
    IN
    IF ~proposal.exists THEN DaoFail("AccountNotInitialized")
    ELSE IF ~(proposal.status = "Active" \/ proposal.status = "Pending")
    THEN DaoFail("InvalidProposalStatus")
    ELSE IF proposal.status = "Pending" /\ ~(now >= proposal.voting_starts_at)
    THEN DaoFail("VotingNotStarted")
    ELSE IF ~window_open(now, proposal.voting_ends_at)
    THEN discard_changes(promoted, "VotingEnded")
    ELSE IF tally = None THEN discard_changes(promoted, "MathOverflow")
    ELSE DaoDone([promoted EXCEPT !.proposals[k][field] = tally])

\* Mutant of HasReview: the review account is opened whether it exists or not.
HasReview_never(proposal_id, board_member) == FALSE

\* Whether the review account of the member for the proposal exists: `init`
\* fails on it.
HasReview(proposal_id, board_member) ==
    \E r \in reviews : r.proposal_id = proposal_id /\ r.board_member = board_member

\* Mutant of review_verdict: a proposal is approved only if every review so
\* far approved it.
review_verdict_all(sharia_approved, approved) == sharia_approved /\ approved

\* `proposal.sharia_approved = approved`: the review overwrites the flag.
review_verdict(sharia_approved, approved) == approved

sharia_review(k, board_member, approved) ==
    LET proposal == proposals[k] IN
    IF ~proposal.exists THEN DaoFail("AccountNotInitialized")
    ELSE IF HasReview(proposal.proposal_id, board_member) THEN DaoFail("AccountInUse")
    ELSE IF ~proposal.affects_sharia THEN DaoFail("NotShariaRelevant")
    ELSE DaoDone([DaoState EXCEPT
            !.proposals[k].sharia_approved =
                review_verdict(proposal.sharia_approved, approved),
            !.reviews = @ \cup {[proposal_id |-> proposal.proposal_id,
                                 board_member |-> board_member,
                                 approved |-> approved,
                                 timestamp |-> now]}])

\* Mutant of vote_passed: a tie passes.
vote_passed_or_tied(for_votes, against_votes) == for_votes >= against_votes

\* Whether the vote passed: more for than against.
vote_passed(for_votes, against_votes) == for_votes > against_votes

\* Mutant of execute_checks: the Sharia approval is not looked at.
execute_checks_ungated(proposal) ==
    LET total_votes ==
            checked_add(checked_add(proposal.for_votes, proposal.against_votes),
                        proposal.abstain_votes)
    IN
    IF total_votes = None THEN "MathOverflow"
    ELSE IF total_votes = 0 THEN "QuorumNotMet"
    ELSE IF ~(proposal.for_votes > proposal.against_votes) THEN "ProposalFailed"
    ELSE "Ok"

\* Mutant of execute_checks: the quorum counts the votes for only.
execute_checks_for_quorum(proposal) ==
    IF proposal.affects_sharia /\ ~proposal.sharia_approved THEN "ShariaNotApproved"
    ELSE IF proposal.for_votes = 0 THEN "QuorumNotMet"
    ELSE IF ~vote_passed(proposal.for_votes, proposal.against_votes)
    THEN "ProposalFailed"
    ELSE "Ok"

\* The checks of execute_proposal after the status and the voting window, in
\* the order of the code: the first that fails, or "Ok".
execute_checks(proposal) ==
    LET total_votes ==
            checked_add(checked_add(proposal.for_votes, proposal.against_votes),
                        proposal.abstain_votes)
    IN
    IF proposal.affects_sharia /\ ~proposal.sharia_approved THEN "ShariaNotApproved"
    ELSE IF total_votes = None THEN "MathOverflow"
    ELSE IF total_votes = 0 THEN "QuorumNotMet"
    ELSE IF ~vote_passed(proposal.for_votes, proposal.against_votes)
    THEN "ProposalFailed"
    ELSE "Ok"

execute_proposal(k) ==
    LET proposal == proposals[k] IN
    IF ~proposal.exists THEN DaoFail("AccountNotInitialized")
    ELSE IF ~(proposal.status = "Active") THEN DaoFail("InvalidProposalStatus")
    ELSE IF ~(now > proposal.voting_ends_at) THEN DaoFail("VotingNotEnded")
    ELSE IF execute_checks(proposal) # "Ok" THEN DaoFail(execute_checks(proposal))
    ELSE DaoDone([DaoState EXCEPT !.proposals[k].status = "Executed"])

\* Mutant of cancelable: a proposal is canceled only before its first vote.
cancelable_pending(status) == status = "Pending"

\* Mutant of cancelable: cancel_proposal without its status check.
cancelable_any(status) == TRUE

\* The statuses cancel_proposal starts from.
cancelable(status) == status = "Pending" \/ status = "Active"

cancel_proposal(k) ==
    LET proposal == proposals[k] IN
    IF ~proposal.exists THEN DaoFail("AccountNotInitialized")
    ELSE IF ~cancelable(proposal.status) THEN DaoFail("InvalidProposalStatus")
    ELSE DaoDone([DaoState EXCEPT !.proposals[k].status = "Canceled"])

DaoStep(op, o) ==
    /\ dao' = o.st.dao
    /\ proposals' = o.st.proposals
    /\ reviews' = o.st.reviews
    /\ result' = Res(op, o.err)
    /\ UNCHANGED <<reserveVars, overflow_checks, haiVars, actionsVars, now>>

\* Creation stops once every key of the model is taken.
CreateProposal(affects_sharia, max) ==
    /\ dao.proposal_count < max
    /\ DaoStep("create_proposal", create_proposal(affects_sharia))

Vote(k, vote_type, weight) == DaoStep("vote", vote(k, vote_type, weight))

ShariaReview(k, board_member, approved) ==
    DaoStep("sharia_review", sharia_review(k, board_member, approved))

ExecuteProposal(k) == DaoStep("execute_proposal", execute_proposal(k))

CancelProposal(k) == DaoStep("cancel_proposal", cancel_proposal(k))

\* The key `dao.admin` holds: the signer of initialize.
DaoAdmin == "admin"

\* The identities that sign instructions: the admin, a board member, a voter
\* and somebody else.
Signers == {"admin", "m1", "v1", "u1"}

\* cancel_proposal signed by authority.  The CancelProposal accounts ask for a
\* signer and nothing more, and the handler does not read it.
CancelProposalBy(authority, k) == CancelProposal(k)

\* vote signed by voter.  The Vote accounts hold no account per voter, and the
\* handler uses the voter's key in the event it emits only.
VoteBy(voter, k, vote_type, weight) == Vote(k, vote_type, weight)

\* The clock of the DAO runs until a proposal created at the start can be executed.
DaoMaxNow == VotingDelay + VotingPeriod + 1

DaoTick ==
    /\ now < DaoMaxNow
    /\ now' = now + 1
    /\ result' = Res("tick", "Ok")
    /\ UNCHANGED <<reserveVars, overflow_checks, haiVars, daoVars, actionsVars>>

\* The clock advances between instructions.
Tick ==
    /\ now < MaxNow
    /\ now' = now + 1
    /\ result' = Res("tick", "Ok")
    /\ UNCHANGED <<reserveVars, overflow_checks, haiVars, daoVars, actionsVars>>

(***************************************************************************)
(* amana-actions.  The program has accounts of its own (Activity,          *)
(* ComplianceState) and no instruction that creates them: an action works  *)
(* on the accounts it is handed.                                           *)
(***************************************************************************)
MinHoldingPeriod == 86400
MaxProfitMargin == 50

ActionActivityIds == {"x", "y"}
ComplianceIds == {"c1", "c2"}

\* The fields of the Activity accounts the actions are run on.
ActionOutcomes == {I64_MIN, -21, 0, 5, 6, I64_MAX}
ActionCapitalRequired == {10}
ActionCapitalDeployed == {0, 10, 20}
ActionCreatedAt == {0, 1}
ActionStatuses == {"Approved", "Completed"}

NoActionActivity ==
    [capital_required |-> 0, capital_deployed |-> 0, status |-> "Proposed",
     created_at |-> 0, outcome |-> 0, is_validated |-> FALSE]

NoComplianceState ==
    [is_compliant |-> FALSE, requires_review |-> FALSE, verified_at |-> 0,
     flagged_at |-> 0]

NoHaiState == [current_score |-> 0, last_updated |-> 0]

NoActionReserve == [total_capital |-> 0, participant_count |-> 0]

\* `activity.outcome.abs() as u64`: the absolute value of i64::MIN traps or
\* wraps to i64::MIN, as the build decides (None: the instruction panics).
abs_as_u64(outcome) ==
    IF outcome = I64_MIN
    THEN (IF overflow_checks THEN None ELSE -I64_MIN)
    ELSE unsigned_abs(outcome)

\* `(activity.outcome as u64 * 100) / activity.capital_deployed`: the product
\* traps or wraps, the division by zero traps (None: the instruction panics).
profit_margin(outcome, capital_deployed) ==
    LET product == outcome * 100 IN
    IF capital_deployed = 0 THEN None
    ELSE IF product > U64_MAX
    THEN (IF overflow_checks THEN None
          ELSE (product % (U64_MAX + 1)) \div capital_deployed)
    ELSE product \div capital_deployed

\* Mutant of perform_compliance_check: the verdict follows is_validated.
perform_compliance_check_validated(activity, clock) ==
    IF activity.is_validated THEN "Compliant" ELSE "Flagged"

\* perform_compliance_check: "Compliant" (Ok(true)), "Flagged" (Ok(false)) or
\* "Panic".
perform_compliance_check(activity, clock) ==
    IF activity.outcome < 0 /\ abs_as_u64(activity.outcome) = None THEN "Panic"
    ELSE IF activity.outcome < 0
            /\ abs_as_u64(activity.outcome) > activity.capital_deployed
    THEN "Flagged"
    ELSE IF activity.outcome > 0
            /\ profit_margin(activity.outcome, activity.capital_deployed) = None
    THEN "Panic"
    ELSE IF activity.outcome > 0
            /\ profit_margin(activity.outcome, activity.capital_deployed)
                    > MaxProfitMargin
    THEN "Flagged"
    ELSE IF clock - activity.created_at < MinHoldingPeriod THEN "Flagged"
    ELSE "Compliant"

\* Mutant of check_compliance_action: a flagged verdict flips requires_review.
check_compliance_action_flip(a, c) ==
    LET verdict == perform_compliance_check(action_activity[a], now) IN
    [verdict |-> verdict,
     err |-> IF verdict = "Panic" THEN "Panic" ELSE "Ok",
     compliance_state |->
        IF verdict = "Flagged"
        THEN [compliance_state EXCEPT ![c].requires_review = ~@,
                                      ![c].flagged_at = now]
        ELSE IF verdict = "Compliant"
        THEN [compliance_state EXCEPT ![c].is_compliant = TRUE,
                                      ![c].verified_at = now]
        ELSE compliance_state]

\* check_compliance_action on the activity account a and the compliance
\* account c: the verdict and the compliance accounts after it.
check_compliance_action(a, c) ==
    LET verdict == perform_compliance_check(action_activity[a], now) IN
    [verdict |-> verdict,
     err |-> IF verdict = "Panic" THEN "Panic" ELSE "Ok",
     compliance_state |->
        IF verdict = "Flagged"
        THEN [compliance_state EXCEPT ![c].requires_review = TRUE,
                                      ![c].flagged_at = now]
        ELSE IF verdict = "Compliant"
        THEN [compliance_state EXCEPT ![c].is_compliant = TRUE,
                                      ![c].verified_at = now]
        ELSE compliance_state]

CheckComplianceAction(a, c) ==
    /\ compliance_state' = check_compliance_action(a, c).compliance_state
    /\ result' = Res("check_compliance_action", check_compliance_action(a, c).err)
    /\ UNCHANGED <<reserveVars, overflow_checks, haiVars, daoVars, action_activity,
                   hai_state, action_reserve, now>>

LongTermDuration == 2592000

\* Mutant of calculate_hai_impact: a profit counts without validation.
calculate_hai_impact_unvalidated(activity, clock) ==
    (IF activity.outcome > 0 THEN 50 ELSE 0)
    + (IF activity.outcome < 0 THEN -25 ELSE 0)
    + (IF clock - activity.created_at > LongTermDuration THEN 25 ELSE 0)

\* calculate_hai_impact: the i16 impact of an activity at the time clock.
calculate_hai_impact(activity, clock) ==
    (IF activity.outcome > 0 /\ activity.is_validated THEN 50 ELSE 0)
    + (IF activity.outcome < 0 THEN -25 ELSE 0)
    + (IF clock - activity.created_at > LongTermDuration THEN 25 ELSE 0)

\* update_hai_action on the activity account a: the HaiState account after it.
\* The impact is between -25 and 75, so its casts to u16 keep the value.
update_hai_action(a) ==
    LET hai_delta == calculate_hai_impact(action_activity[a], now)
        new_score ==
            IF hai_delta >= 0
            THEN saturating_add_u16(hai_state.current_score, hai_delta)
            ELSE saturating_sub_u16(hai_state.current_score, -hai_delta)
    IN [hai_state EXCEPT !.current_score = Min(new_score, 10000),
                         !.last_updated = now]

UpdateHaiAction(a) ==
    /\ hai_state' = update_hai_action(a)
    /\ result' = Res("update_hai_action", "Ok")
    /\ UNCHANGED <<reserveVars, overflow_checks, haiVars, daoVars, action_activity,
                   compliance_state, action_reserve, now>>

\* distribute_profits_action on the activity account a: the error and the
\* Reserve account after it.  `profit / total_participants` panics on a reserve
\* without participants; `reserve.total_capital += profit` traps or wraps, as
\* the build decides.
distribute_profits_action(a) ==
    LET activity == action_activity[a]
        profit == activity.outcome
        total_participants == action_reserve.participant_count
        total == unchecked_add(action_reserve.total_capital, profit)
    IN
    IF ~(activity.outcome > 0) THEN [err |-> "NoProfit", reserve |-> action_reserve]
    ELSE IF total_participants = 0 \/ total = None
    THEN [err |-> "Panic", reserve |-> action_reserve]
    ELSE [err |-> "Ok", reserve |-> [action_reserve EXCEPT !.total_capital = total]]

DistributeProfitsAction(a) ==
    /\ action_reserve' = distribute_profits_action(a).reserve
    /\ result' = Res("distribute_profits_action", distribute_profits_action(a).err)
    /\ UNCHANGED <<reserveVars, overflow_checks, haiVars, daoVars, action_activity,
                   compliance_state, hai_state, now>>

\* The clock passes the age of a long-term activity.
ImpactTick ==
    /\ now <= LongTermDuration
    /\ now' = now + 1
    /\ result' = Res("tick", "Ok")
    /\ UNCHANGED <<reserveVars, overflow_checks, haiVars, daoVars, actionsVars>>

\* The clock passes the minimum holding period.
ActionsTick ==
    /\ now < MinHoldingPeriod
    /\ now' = now + 1
    /\ result' = Res("tick", "Ok")
    /\ UNCHANGED <<reserveVars, overflow_checks, haiVars, daoVars, actionsVars>>

(***************************************************************************)
(* Specifications.  Initially every program is initialized and no other    *)
(* account exists.                                                         *)
(***************************************************************************)
InitReserve ==
    /\ reserve = initialize_reserve(MinContribution, MaxParticipants)
    /\ participants = [u \in Users |-> NoParticipant]
    /\ activities = [a \in ActivityIds |-> NoActivity]
    /\ lamports = RentExemptMin
    /\ wallet = [u \in Users |-> WalletInit]
    /\ overflow_checks \in BOOLEAN
    /\ hai = initialize_hai(0)
    /\ metrics = {}
    /\ snapshots = [s \in SnapshotSeeds |-> NoSnapshot]
    /\ dao = initialize_dao(VotingDelay, VotingPeriod)
    /\ proposals = [k \in ProposalKeys |-> NoProposal]
    /\ reviews = {}
    /\ action_activity = [a \in ActionActivityIds |-> NoActionActivity]
    /\ compliance_state = [c \in ComplianceIds |-> NoComplianceState]
    /\ hai_state = NoHaiState
    /\ action_reserve = NoActionReserve
    /\ now = 0
    /\ result = Res("initialize", "Ok")

InitHai ==
    /\ reserve = initialize_reserve(MinContribution, MaxParticipants)
    /\ participants = [u \in Users |-> NoParticipant]
    /\ activities = [a \in ActivityIds |-> NoActivity]
    /\ lamports = RentExemptMin
    /\ wallet = [u \in Users |-> WalletInit]
    /\ overflow_checks \in BOOLEAN
    /\ \E initial_score \in InitialScores : hai = initialize_hai(initial_score)
    /\ metrics = {}
    /\ snapshots = [s \in SnapshotSeeds |-> NoSnapshot]
    /\ dao = initialize_dao(VotingDelay, VotingPeriod)
    /\ proposals = [k \in ProposalKeys |-> NoProposal]
    /\ reviews = {}
    /\ action_activity = [a \in ActionActivityIds |-> NoActionActivity]
    /\ compliance_state = [c \in ComplianceIds |-> NoComplianceState]
    /\ hai_state = NoHaiState
    /\ action_reserve = NoActionReserve
    /\ now = 0
    /\ result = Res("initialize", "Ok")

InitDao ==
    /\ reserve = initialize_reserve(MinContribution, MaxParticipants)
    /\ participants = [u \in Users |-> NoParticipant]
    /\ activities = [a \in ActivityIds |-> NoActivity]
    /\ lamports = RentExemptMin
    /\ wallet = [u \in Users |-> WalletInit]
    /\ overflow_checks = TRUE
    /\ hai = initialize_hai(0)
    /\ metrics = {}
    /\ snapshots = [s \in SnapshotSeeds |-> NoSnapshot]
    /\ dao = initialize_dao(VotingDelay, VotingPeriod)
    /\ proposals = [k \in ProposalKeys |-> NoProposal]
    /\ reviews = {}
    /\ action_activity = [a \in ActionActivityIds |-> NoActionActivity]
    /\ compliance_state = [c \in ComplianceIds |-> NoComplianceState]
    /\ hai_state = NoHaiState
    /\ action_reserve = NoActionReserve
    /\ now = 0
    /\ result = Res("initialize", "Ok")

\* The actions are handed two activity accounts that agree on outcome,
\* capital_required, capital_deployed and created_at and differ in status.
InitActions ==
    /\ reserve = initialize_reserve(MinContribution, MaxParticipants)
    /\ participants = [u \in Users |-> NoParticipant]
    /\ activities = [a \in ActivityIds |-> NoActivity]
    /\ lamports = RentExemptMin
    /\ wallet = [u \in Users |-> WalletInit]
    /\ overflow_checks \in BOOLEAN
    /\ hai = initialize_hai(0)
    /\ metrics = {}
    /\ snapshots = [s \in SnapshotSeeds |-> NoSnapshot]
    /\ dao = initialize_dao(VotingDelay, VotingPeriod)
    /\ proposals = [k \in ProposalKeys |-> NoProposal]
    /\ reviews = {}
    /\ \E o \in ActionOutcomes, cr \in ActionCapitalRequired,
          cd \in ActionCapitalDeployed, ca \in ActionCreatedAt,
          sx \in ActionStatuses, sy \in ActionStatuses, vx \in BOOLEAN, vy \in BOOLEAN :
            /\ sx # sy
            /\ action_activity =
                [a \in ActionActivityIds |->
                    [capital_required |-> cr, capital_deployed |-> cd,
                     status |-> IF a = "x" THEN sx ELSE sy,
                     created_at |-> ca, outcome |-> o,
                     is_validated |-> IF a = "x" THEN vx ELSE vy]]
    /\ compliance_state = [c \in ComplianceIds |-> NoComplianceState]
    /\ hai_state = NoHaiState
    /\ action_reserve = NoActionReserve
    /\ now = MinHoldingPeriod - 1
    /\ result = Res("initialize", "Ok")

\* The fields of the accounts the score action is run on.
ImpactOutcomes == {-21, 0, 5}
ImpactScores == {0, 10, 5000, 9980, 10000}

\* The score action is handed two completed activities of the same outcome and
\* a HaiState account, when the older activity is about to turn thirty days.
InitImpact ==
    /\ reserve = initialize_reserve(MinContribution, MaxParticipants)
    /\ participants = [u \in Users |-> NoParticipant]
    /\ activities = [a \in ActivityIds |-> NoActivity]
    /\ lamports = RentExemptMin
    /\ wallet = [u \in Users |-> WalletInit]
    /\ overflow_checks \in BOOLEAN
    /\ hai = initialize_hai(0)
    /\ metrics = {}
    /\ snapshots = [s \in SnapshotSeeds |-> NoSnapshot]
    /\ dao = initialize_dao(VotingDelay, VotingPeriod)
    /\ proposals = [k \in ProposalKeys |-> NoProposal]
    /\ reviews = {}
    /\ \E o \in ImpactOutcomes, vx \in BOOLEAN, vy \in BOOLEAN :
            action_activity =
                [a \in ActionActivityIds |->
                    [capital_required |-> 10, capital_deployed |-> 10,
                     status |-> "Completed",
                     created_at |-> IF a = "x" THEN 0 ELSE 1, outcome |-> o,
                     is_validated |-> IF a = "x" THEN vx ELSE vy]]
    /\ compliance_state = [c \in ComplianceIds |-> NoComplianceState]
    /\ \E s \in ImpactScores : hai_state = [current_score |-> s, last_updated |-> 0]
    /\ action_reserve = NoActionReserve
    /\ now = LongTermDuration
    /\ result = Res("initialize", "Ok")

\* The fields of the accounts the profit action is run on.
ProfitOutcomes == {-21, 0, 5, I64_MAX}
ProfitCapital == {0, 1500}
ProfitParticipants == {0, 2}

\* The profit action is handed two completed activities and a Reserve account.
InitProfit ==
    /\ reserve = initialize_reserve(MinContribution, MaxParticipants)
    /\ participants = [u \in Users |-> NoParticipant]
    /\ activities = [a \in ActivityIds |-> NoActivity]
    /\ lamports = RentExemptMin
    /\ wallet = [u \in Users |-> WalletInit]
    /\ overflow_checks \in BOOLEAN
    /\ hai = initialize_hai(0)
    /\ metrics = {}
    /\ snapshots = [s \in SnapshotSeeds |-> NoSnapshot]
    /\ dao = initialize_dao(VotingDelay, VotingPeriod)
    /\ proposals = [k \in ProposalKeys |-> NoProposal]
    /\ reviews = {}
    /\ \E ox \in ProfitOutcomes, oy \in ProfitOutcomes :
            action_activity =
                [a \in ActionActivityIds |->
                    [capital_required |-> 10, capital_deployed |-> 10,
                     status |-> "Completed", created_at |-> 0,
                     outcome |-> IF a = "x" THEN ox ELSE oy,
                     is_validated |-> TRUE]]
    /\ compliance_state = [c \in ComplianceIds |-> NoComplianceState]
    /\ hai_state = NoHaiState
    /\ \E t \in ProfitCapital, n \in ProfitParticipants :
            action_reserve = [total_capital |-> t, participant_count |-> n]
    /\ now = 0
    /\ result = Res("initialize", "Ok")

\* join, propose, approve, complete, deposit and withdraw, called by the users US
\* on the activities AS.
Ledger(US, AS) ==
    \/ \E u \in US, amount \in Amounts : JoinReserve(u, amount)
    \/ \E u \in US, a \in AS, c \in CapitalAmounts : ProposeActivity(u, a, c)
    \/ \E a \in AS : ApproveActivity(a)
    \/ \E a \in AS, outcome \in Outcomes : CompleteActivity(a, outcome)
    \/ \E u \in US, amount \in Amounts : DepositCapital(u, amount)
    \/ \E u \in US, amount \in Amounts : WithdrawCapital(u, amount)

\* The capital ledger: three users compete for two places, one activity.
NextLedger == Ledger(Users, {"a1"})

\* The activity lifecycle: all instructions of amana-reserve, two activities.
NextReserve ==
    \/ Ledger({"u1"}, ActivityIds)
    \/ \E a \in ActivityIds, amount \in RealtimeAmounts : DeployCapitalRealtime(a, amount)

\* The score: all instructions of amana-hai.
NextHai ==
    \/ \E id \in MetricIds, c \in BOOLEAN, a \in BOOLEAN, e \in BOOLEAN :
            TrackActivity(id, c, a, e)
    \/ \E w \in WeightTuples : UpdateWeights(w)
    \/ \E ds \in DataSources : UpdateHaiScoreWithVrf(ds)
    \/ \E d \in ComplianceDeltas : UpdateHaiRealtime(d)
    \/ Tick

\* Governance: all instructions on proposals, one proposal.
NextDao ==
    \/ \E f \in BOOLEAN : CreateProposal(f, 1)
    \/ \E k \in {1}, t \in VoteTypes, w \in VoteWeights : Vote(k, t, w)
    \/ \E k \in {1}, m \in Members, f \in BOOLEAN : ShariaReview(k, m, f)
    \/ \E k \in {1} : ExecuteProposal(k)
    \/ \E k \in {1} : CancelProposal(k)
    \/ DaoTick

SpecLedger == InitReserve /\ [][NextLedger]_vars
SpecReserve == InitReserve /\ [][NextReserve]_vars
SpecHai == InitHai /\ [][NextHai]_vars
SpecDao == InitDao /\ [][NextDao]_vars

\* Governance with two proposals: creation, votes for, cancellation.
NextDaoTwo ==
    \/ \E f \in BOOLEAN : CreateProposal(f, Cardinality(ProposalKeys))
    \/ \E k \in ProposalKeys, w \in VoteWeights : Vote(k, "For", w)
    \/ \E k \in ProposalKeys : CancelProposal(k)
    \/ DaoTick

SpecDaoTwo == InitDao /\ [][NextDaoTwo]_vars

\* Governance by its signers: one proposal, one voter, any signer cancels.
NextDaoSigners ==
    \/ \E f \in BOOLEAN : CreateProposal(f, 1)
    \/ \E t \in VoteTypes, w \in VoteWeights : VoteBy("v1", 1, t, w)
    \/ \E authority \in Signers : CancelProposalBy(authority, 1)
    \/ ExecuteProposal(1)
    \/ DaoTick

SpecDaoSigners == InitDao /\ [][NextDaoSigners]_vars

\* The counters of the score: three activities are tracked, under weights that
\* do not divide evenly, between adjustments of the score.
CounterMetricIds == {1, 2, 3}
CounterWeightTuples == {<<4000, 2500, 2000, 1500>>, <<3333, 3333, 3333, 1>>, <<0, 0, 0, 0>>}

NextCounters ==
    \/ \E id \in CounterMetricIds, c \in BOOLEAN, a \in BOOLEAN, e \in BOOLEAN :
            TrackActivity(id, c, a, e)
    \/ \E w \in CounterWeightTuples : UpdateWeights(w)
    \/ UpdateHaiRealtime(7000)

SpecCounters == InitHai /\ [][NextCounters]_vars

\* Snapshots of the score, taken between tracked activities and adjustments.
NextSnapshots ==
    \/ CreateSnapshot
    \/ \E id \in MetricIds, c \in BOOLEAN, a \in BOOLEAN : TrackActivity(id, c, a, TRUE)
    \/ \E d \in ComplianceDeltas : UpdateHaiRealtime(d)
    \/ Tick

SpecSnapshots == InitHai /\ [][NextSnapshots]_vars

\* The compliance action, run on either activity and either compliance account.
NextActions ==
    \/ \E a \in ActionActivityIds, c \in ComplianceIds : CheckComplianceAction(a, c)
    \/ ActionsTick

SpecActions == InitActions /\ [][NextActions]_vars

\* The score action, run on either activity.
NextImpact ==
    \/ \E a \in ActionActivityIds : UpdateHaiAction(a)
    \/ ImpactTick

SpecImpact == InitImpact /\ [][NextImpact]_vars

\* The profit action, run on either activity.
NextProfit == \E a \in ActionActivityIds : DistributeProfitsAction(a)

SpecProfit == InitProfit /\ [][NextProfit]_vars

\* The activity lifecycle with callers that never stop calling: some instruction
\* is always executed again.
SpecReserveFair == SpecReserve /\ WF_vars(NextReserve)

(***************************************************************************)
(* Properties                                                              *)
(***************************************************************************)
RECURSIVE Sum(_, _)
Sum(f, S) == IF S = {} THEN 0
             ELSE LET x == CHOOSE y \in S : TRUE IN f[x] + Sum(f, S \ {x})

\* Capital that is out of the reserve: deployed and not yet settled.
DeployedOut ==
    Sum([a \in ActivityIds |->
            IF activities[a].exists /\ activities[a].status \in {"Approved", "Active"}
            THEN activities[a].capital_deployed ELSE 0], ActivityIds)

\* What the users transferred in by join and deposit, less what they withdrew.
NetContributions == Sum([u \in Users |-> WalletInit - wallet[u]], Users)

\* The recorded outcomes of the completed activities.
CompletedOutcomes ==
    Sum([a \in ActivityIds |->
            IF activities[a].exists /\ activities[a].status = "Completed"
            THEN activities[a].outcome ELSE 0], ActivityIds)

\* C1: capital conservation.  In every state reached by join, deposit, withdraw,
\* propose, approve and complete, total_capital plus the capital deployed in
\* activities that are approved and not yet completed equals the users' net
\* contributions plus the recorded outcomes of the completed activities.
C1_CapitalConservation ==
    reserve.total_capital + DeployedOut = NetContributions + CompletedOutcomes

\* C2: score bounds.  In every reachable state of the score account,
\* 0 <= current_score <= 10000.
C2_ScoreBounds == hai.current_score >= 0 /\ hai.current_score <= 10000

StoredWeights(h) ==
    <<h.compliance_weight, h.asset_backing_weight, h.economic_value_weight,
      h.validator_participation_weight>>

\* C3: update_weights with four weights whose sum is not exactly 10000 fails with
\* InvalidWeights and leaves the stored weights and current_score unchanged;
\* every update_weights that succeeds stores four weights that sum to 10000.
C3_UpdateWeights ==
    [][\A w \in WeightTuples :
        (result'.op = "update_weights" /\ UpdateWeights(w)) =>
            /\ (w[1] + w[2] + w[3] + w[4] # 10000 =>
                    /\ result'.err = "InvalidWeights"
                    /\ StoredWeights(hai') = StoredWeights(hai)
                    /\ hai'.current_score = hai.current_score)
            /\ (result'.err = "Ok" =>
                    /\ StoredWeights(hai') = w
                    /\ hai'.compliance_weight + hai'.asset_backing_weight
                         + hai'.economic_value_weight
                         + hai'.validator_participation_weight = 10000)]_vars

\* Witness of C3: valid weights were stored, and a later update_weights with a
\* wrong sum was refused.
C3_Witness ==
    /\ result = Res("update_weights", "InvalidWeights")
    /\ StoredWeights(hai) = <<4000, 2500, 2000, 1500>>

\* C4: in every reachable state of the score account, from initialize on, the
\* four stored weights sum to exactly 10000.
C4_WeightsSum ==
    hai.compliance_weight + hai.asset_backing_weight + hai.economic_value_weight
        + hai.validator_participation_weight = 10000

\* The lifecycle order of the statuses.
StatusRank(status) ==
    CASE status = "Proposed" -> 0
      [] status = "Approved" -> 1
      [] status = "Active" -> 2
      [] status = "Completed" -> 3
      [] status = "Rejected" -> 4

\* A status change the lifecycle allows: one step forward, the settlement of an
\* approved activity, or a rejection from Proposed or Approved.
LegalActivityStep(from, to) ==
    \/ to # "Rejected" /\ StatusRank(to) = StatusRank(from) + 1
    \/ from = "Approved" /\ to = "Completed"
    \/ to = "Rejected" /\ from \in {"Proposed", "Approved"}

\* C5: activity status monotonicity.  Whenever an instruction changes the status
\* of an activity, the change is a legal step of the lifecycle: never backward,
\* never over an intermediate state.
C5_StatusMonotone ==
    [][\A a \in ActivityIds :
        (activities[a].exists /\ activities'[a].status # activities[a].status)
            => LegalActivityStep(activities[a].status, activities'[a].status)]_vars

\* C6: proposal status legality.  The only status changes of a proposal are
\* Pending -> Active by a successful vote, Active -> Executed by execute and
\* Pending/Active -> Canceled by cancel; cancel on an Executed or Canceled
\* proposal fails with InvalidProposalStatus; Executed and Canceled are final.
C6_ProposalStatus ==
    [][\A k \in ProposalKeys :
        LET from == proposals[k].status
            to == proposals'[k].status
        IN
        /\ (proposals[k].exists /\ to # from) =>
                \/ from = "Pending" /\ to = "Active" /\ result' = Res("vote", "Ok")
                \/ from = "Active" /\ to = "Executed"
                    /\ result' = Res("execute_proposal", "Ok")
                \/ from \in {"Pending", "Active"} /\ to = "Canceled"
                    /\ result' = Res("cancel_proposal", "Ok")
        /\ (result'.op = "cancel_proposal" /\ CancelProposal(k) /\ proposals[k].exists
                /\ from \in {"Executed", "Canceled"}) =>
                /\ result'.err = "InvalidProposalStatus"
                /\ proposals' = proposals
        /\ (proposals[k].exists /\ from \in {"Executed", "Canceled"}) => to = from]_vars

\* Witness of C6: cancel was refused on an executed proposal.
C6_Witness ==
    /\ result = Res("cancel_proposal", "InvalidProposalStatus")
    /\ proposals[1].status = "Executed"

\* C7: the compliance gate.  On a proposal that affects Sharia and is not
\* approved, execute changes nothing and, once the vote is over on an Active
\* proposal, fails with ShariaNotApproved whatever the tallies; and a proposal
\* that affects Sharia is Executed only if a review with approved = true was
\* recorded for it.
C7_ComplianceGate ==
    /\ [](\A k \in ProposalKeys :
            (proposals[k].exists /\ proposals[k].affects_sharia
                /\ proposals[k].status = "Executed")
            => \E r \in reviews : r.proposal_id = proposals[k].proposal_id /\ r.approved)
    /\ [][\A k \in ProposalKeys :
            (result'.op = "execute_proposal" /\ ExecuteProposal(k)
                /\ proposals[k].exists /\ proposals[k].affects_sharia
                /\ ~proposals[k].sharia_approved)
            => /\ result'.err # "Ok"
               /\ proposals' = proposals
               /\ (proposals[k].status = "Active" /\ now > proposals[k].voting_ends_at)
                    => result'.err = "ShariaNotApproved"]_vars

\* Witness of C7: a vote that would pass, refused for the missing approval.
C7_Witness ==
    /\ result = Res("execute_proposal", "ShariaNotApproved")
    /\ proposals[1].for_votes > proposals[1].against_votes
    /\ proposals[1].status = "Active"

\* The change of total_capital the settlement rule prescribes.
SettlementDelta(capital_deployed, outcome) ==
    IF outcome > 0 THEN capital_deployed + outcome
    ELSE IF outcome = 0 THEN capital_deployed
    ELSE IF -outcome < capital_deployed THEN capital_deployed + outcome
    ELSE 0

\* C8: the settlement rule.  A successful complete(activity, outcome) changes
\* total_capital by capital_deployed + outcome for a profit, capital_deployed for
\* a zero outcome, capital_deployed - |outcome| for a loss below the deployed
\* capital and 0 for a larger loss; it sets status Completed, is_validated and
\* the outcome, and never decreases total_capital.
C8_Settlement ==
    [][\A a \in ActivityIds, outcome \in Outcomes :
        (result' = Res("complete_activity", "Ok") /\ CompleteActivity(a, outcome)) =>
            /\ reserve'.total_capital - reserve.total_capital
                 = SettlementDelta(activities[a].capital_deployed, outcome)
            /\ reserve'.total_capital >= reserve.total_capital
            /\ activities'[a].status = "Completed"
            /\ activities'[a].is_validated
            /\ activities'[a].outcome = outcome]_vars

\* Witness of C8: join 1000, approve 600, complete with a loss of 700 leaves 400.
C8_Witness ==
    /\ result = Res("complete_activity", "Ok")
    /\ activities["a1"].status = "Completed"
    /\ activities["a1"].capital_deployed = 600
    /\ activities["a1"].outcome = -700
    /\ reserve.total_capital = 400

\* C9: join.  For a user who has not joined and holds the amount: join fails with
\* InsufficientContribution when amount < min_contribution, with
\* MaxParticipantsReached when participant_count has reached max_participants,
\* changing nothing; otherwise it creates an active participant with
\* capital_contributed = amount, adds exactly amount to total_capital and 1 to
\* participant_count.  And participant_count <= max_participants always.
C9_Join ==
    /\ [](reserve.participant_count <= reserve.max_participants)
    /\ [][\A u \in Users, amount \in Amounts :
            (result'.op = "join_reserve" /\ JoinReserve(u, amount)
                /\ ~participants[u].exists /\ wallet[u] >= amount)
            => IF amount < reserve.min_capital_contribution
               THEN result'.err = "InsufficientContribution" /\ UNCHANGED reserveVars
               ELSE IF reserve.participant_count >= reserve.max_participants
               THEN result'.err = "MaxParticipantsReached" /\ UNCHANGED reserveVars
               ELSE /\ result'.err = "Ok"
                    /\ participants'[u].exists
                    /\ participants'[u].is_active
                    /\ participants'[u].capital_contributed = amount
                    /\ reserve'.total_capital = reserve.total_capital + amount
                    /\ reserve'.participant_count = reserve.participant_count + 1]_vars

\* C10: withdraw.  It fails with InvalidAmount when amount = 0, with
\* InsufficientBalance when amount exceeds capital_contributed, and with
\* InsufficientLiquidity when amount exceeds what the reserve still holds, be it
\* in lamports or because capital is deployed; a failed withdraw changes nothing
\* and a successful one takes exactly amount from the participant's
\* capital_contributed, from total_capital and from the held lamports.
C10_Withdraw ==
    [][\A u \in Users, amount \in Amounts :
        (result'.op = "withdraw_capital" /\ WithdrawCapital(u, amount)
            /\ participants[u].exists) =>
            /\ (result'.err # "Ok" => UNCHANGED reserveVars)
            /\ IF amount = 0 THEN result'.err = "InvalidAmount"
               ELSE IF amount > participants[u].capital_contributed
               THEN result'.err = "InsufficientBalance"
               ELSE IF amount > lamports \/ amount > reserve.total_capital
               THEN result'.err = "InsufficientLiquidity"
               ELSE /\ result'.err = "Ok"
                    /\ participants'[u].capital_contributed
                         = participants[u].capital_contributed - amount
                    /\ reserve'.total_capital = reserve.total_capital - amount
                    /\ lamports' = lamports - amount]_vars

\* C11: propose.  For an active participant and an unused activity id, propose
\* succeeds exactly when 0 < capital_required <= total_capital and fails with
\* InvalidCapitalAmount otherwise, changing nothing; a successful propose creates
\* the activity Proposed with capital_deployed = 0, outcome = 0, is_validated
\* false, and leaves the reserve (total_capital included) unchanged.
C11_Propose ==
    [][\A u \in Users, a \in ActivityIds, c \in CapitalAmounts :
        (result'.op = "propose_activity" /\ ProposeActivity(u, a, c)
            /\ participants[u].exists /\ participants[u].is_active
            /\ ~activities[a].exists)
        => IF c > 0 /\ c <= reserve.total_capital
           THEN /\ result'.err = "Ok"
                /\ activities'[a].exists
                /\ activities'[a].status = "Proposed"
                /\ activities'[a].capital_required = c
                /\ activities'[a].capital_deployed = 0
                /\ activities'[a].outcome = 0
                /\ ~activities'[a].is_validated
                /\ \A b \in ActivityIds \ {a} : activities'[b] = activities[b]
                /\ UNCHANGED <<reserve, participants, lamports, wallet>>
           ELSE /\ result'.err = "InvalidCapitalAmount"
                /\ UNCHANGED reserveVars]_vars

\* Witness of C11: two outstanding proposals that together require more than
\* total_capital, which no proposal has reduced.
C11_Witness ==
    /\ result = Res("propose_activity", "Ok")
    /\ activities["a1"].exists /\ activities["a1"].status = "Proposed"
    /\ activities["a2"].exists /\ activities["a2"].status = "Proposed"
    /\ activities["a1"].capital_required + activities["a2"].capital_required
            > reserve.total_capital
    /\ reserve.total_capital = 1000

\* C12: approve is atomic.  From Proposed with capital_required <= total_capital
\* it sets status Approved, capital_deployed = capital_required and takes exactly
\* capital_required from total_capital; from any other status it fails with
\* InvalidActivityStatus, and from Proposed with capital_required > total_capital
\* with MathOverflow; a failed approve changes neither the activity nor the
\* reserve.
C12_Approve ==
    [][\A a \in ActivityIds :
        (result'.op = "approve_activity" /\ ApproveActivity(a) /\ activities[a].exists)
        => IF activities[a].status # "Proposed"
           THEN result'.err = "InvalidActivityStatus" /\ UNCHANGED reserveVars
           ELSE IF activities[a].capital_required > reserve.total_capital
           THEN result'.err = "MathOverflow" /\ UNCHANGED reserveVars
           ELSE /\ result'.err = "Ok"
                /\ activities'[a].status = "Approved"
                /\ activities'[a].capital_deployed = activities[a].capital_required
                /\ reserve'.total_capital
                     = reserve.total_capital - activities[a].capital_required]_vars

\* Witness of C12: an approve refused for lack of capital, the activity still
\* Proposed with nothing deployed.
C12_Witness ==
    /\ result = Res("approve_activity", "MathOverflow")
    /\ activities["a1"].status = "Proposed"
    /\ activities["a1"].capital_deployed = 0
    /\ activities["a1"].capital_required > reserve.total_capital

\* C13: complete is legal from Approved and from Active, and fails with
\* InvalidActivityStatus, changing nothing, from Proposed, Completed and Rejected.
C13_CompleteFrom ==
    [][\A a \in ActivityIds, outcome \in Outcomes :
        (result'.op = "complete_activity" /\ CompleteActivity(a, outcome)
            /\ activities[a].exists)
        => /\ activities[a].status \in {"Proposed", "Completed", "Rejected"}
                => result'.err = "InvalidActivityStatus" /\ UNCHANGED reserveVars
           /\ activities[a].status \in {"Approved", "Active"}
                => result'.err # "InvalidActivityStatus"]_vars

\* C14: the status Rejected is reachable.  Stated on the runs in which the
\* instructions keep being called: some activity is eventually Rejected.
C14_RejectedReachable ==
    <>(\E a \in ActivityIds : activities[a].exists /\ activities[a].status = "Rejected")

\* No instruction assigns Rejected: in every reachable state no activity has it.
NeverRejected ==
    \A a \in ActivityIds : activities[a].status # "Rejected"

\* The verdict the compliance rules prescribe: (a) a loss above capital_deployed,
\* (b) a profit above 50 % of capital_required, (c) held less than a day.
RuleVerdict(activity, clock) ==
    IF \/ activity.outcome < 0 /\ -activity.outcome > activity.capital_deployed
       \/ activity.outcome > 0
            /\ (activity.outcome * 100) \div activity.capital_required > 50
       \/ clock - activity.created_at < 86400
    THEN "Flagged" ELSE "Compliant"

\* C15: the compliance check returns Flagged exactly when one of the rules (a),
\* (b), (c) fires and Compliant otherwise, for every activity record, also when
\* capital_deployed differs from capital_required or is 0.
C15_ComplianceRules ==
    \A a \in ActionActivityIds :
        perform_compliance_check(action_activity[a], now)
            = RuleVerdict(action_activity[a], now)

SameInputs(a, b) ==
    /\ action_activity[a].outcome = action_activity[b].outcome
    /\ action_activity[a].capital_required = action_activity[b].capital_required
    /\ action_activity[a].capital_deployed = action_activity[b].capital_deployed
    /\ action_activity[a].created_at = action_activity[b].created_at

\* C16: compliance determinism.  Two evaluations of the compliance action at the
\* same time on activities with the same outcome, capital_required,
\* capital_deployed and created_at give the same verdict, whatever the status
\* and is_validated of the activities and the earlier content of the compliance
\* account are.
C16_Determinism ==
    \A a, b \in ActionActivityIds, c, d \in ComplianceIds :
        SameInputs(a, b)
            => check_compliance_action(a, c).verdict = check_compliance_action(b, d).verdict

\* Witness of C16: a verdict was given while the two activities differ in status
\* and is_validated and the two compliance accounts hold different earlier
\* verdicts.
C16_Witness ==
    /\ result = Res("check_compliance_action", "Ok")
    /\ SameInputs("x", "y")
    /\ action_activity["x"].status # action_activity["y"].status
    /\ action_activity["x"].is_validated # action_activity["y"].is_validated
    /\ compliance_state["c1"].requires_review /\ ~compliance_state["c1"].is_compliant
    /\ compliance_state["c2"].is_compliant /\ ~compliance_state["c2"].requires_review

\* The error the rules of execute prescribe for a proposal; with_overflow adds
\* the check that the sum of the three tallies fits 64 bits.
ExecuteRule(proposal, clock, with_overflow) ==
    LET total == proposal.for_votes + proposal.against_votes + proposal.abstain_votes
    IN
    IF proposal.status # "Active" THEN "InvalidProposalStatus"
    ELSE IF ~(clock > proposal.voting_ends_at) THEN "VotingNotEnded"
    ELSE IF proposal.affects_sharia /\ ~proposal.sharia_approved THEN "ShariaNotApproved"
    ELSE IF with_overflow /\ total > U64_MAX THEN "MathOverflow"
    ELSE IF total = 0 THEN "QuorumNotMet"
    ELSE IF proposal.for_votes <= proposal.against_votes THEN "ProposalFailed"
    ELSE "Ok"

ExecuteFollows(with_overflow) ==
    \A k \in ProposalKeys :
        (result'.op = "execute_proposal" /\ ExecuteProposal(k) /\ proposals[k].exists)
        => /\ result'.err = ExecuteRule(proposals[k], now, with_overflow)
           /\ result'.err = "Ok"
                => proposals' = [proposals EXCEPT ![k].status = "Executed"]
           /\ result'.err # "Ok" => proposals' = proposals
           /\ UNCHANGED <<dao, reviews>>

ExecutedPassed ==
    \A k \in ProposalKeys :
        (proposals[k].exists /\ proposals[k].status = "Executed")
            => proposals[k].for_votes > proposals[k].against_votes

\* C17, as stated: execute fails with InvalidProposalStatus unless the status is
\* Active, with VotingNotEnded unless now > voting_ends_at; then the first
\* failing check decides: ShariaNotApproved, QuorumNotMet (no votes),
\* ProposalFailed (for_votes <= against_votes); else the status becomes Executed.
\* Every Executed proposal has for_votes > against_votes.
C17_ExecuteOrder_Stated ==
    /\ [][ExecuteFollows(FALSE)]_vars
    /\ []ExecutedPassed

\* C17, amended: as stated, with one more check between ShariaNotApproved and
\* QuorumNotMet: execute fails with MathOverflow when for_votes + against_votes
\* + abstain_votes does not fit 64 bits.
C17_ExecuteOrder ==
    /\ [][ExecuteFollows(TRUE)]_vars
    /\ []ExecutedPassed

\* Witness of C17: an execute refused for the overflow of the sum of the
\* tallies, on a tie.
C17_Witness ==
    /\ result = Res("execute_proposal", "MathOverflow")
    /\ proposals[1].status = "Active"
    /\ proposals[1].for_votes = proposals[1].against_votes
    /\ proposals[1].for_votes > 0

\* The error the rules of vote prescribe; with_overflow adds the check that the
\* chosen tally plus the weight fits 64 bits.
VoteRule(proposal, clock, chosen, weight, with_overflow) ==
    IF proposal.status \notin {"Pending", "Active"} THEN "InvalidProposalStatus"
    ELSE IF proposal.status = "Pending" /\ clock < proposal.voting_starts_at
    THEN "VotingNotStarted"
    ELSE IF clock > proposal.voting_ends_at THEN "VotingEnded"
    ELSE IF with_overflow /\ chosen + weight > U64_MAX THEN "MathOverflow"
    ELSE "Ok"

VoteFollows(with_overflow) ==
    \A k \in ProposalKeys, w \in VoteWeights :
        LET p == proposals[k] IN
        /\ (result'.op = "vote" /\ Vote(k, "For", w) /\ p.exists)
            => /\ result'.err = VoteRule(p, now, p.for_votes, w, with_overflow)
               /\ result'.err = "Ok"
                    => proposals' = [proposals EXCEPT
                            ![k] = [p EXCEPT !.status = "Active",
                                             !.for_votes = p.for_votes + w]]
               /\ result'.err # "Ok" => proposals' = proposals
               /\ UNCHANGED <<dao, reviews>>
        /\ (result'.op = "vote" /\ Vote(k, "Against", w) /\ p.exists)
            => /\ result'.err = VoteRule(p, now, p.against_votes, w, with_overflow)
               /\ result'.err = "Ok"
                    => proposals' = [proposals EXCEPT
                            ![k] = [p EXCEPT !.status = "Active",
                                             !.against_votes = p.against_votes + w]]
               /\ result'.err # "Ok" => proposals' = proposals
               /\ UNCHANGED <<dao, reviews>>
        /\ (result'.op = "vote" /\ Vote(k, "Abstain", w) /\ p.exists)
            => /\ result'.err = VoteRule(p, now, p.abstain_votes, w, with_overflow)
               /\ result'.err = "Ok"
                    => proposals' = [proposals EXCEPT
                            ![k] = [p EXCEPT !.status = "Active",
                                             !.abstain_votes = p.abstain_votes + w]]
               /\ result'.err # "Ok" => proposals' = proposals
               /\ UNCHANGED <<dao, reviews>>

\* C18, as stated: vote succeeds exactly when the status is Pending or Active
\* and voting_starts_at <= now <= voting_ends_at (only the upper bound for an
\* Active proposal); it fails with VotingNotStarted, VotingEnded or
\* InvalidProposalStatus otherwise.  A successful vote makes the proposal
\* Active, adds weight to the chosen tally and changes nothing else.
C18_Vote_Stated == [][VoteFollows(FALSE)]_vars

\* C18, amended: as stated, except that a vote inside the voting window fails
\* with MathOverflow, changing nothing, when the chosen tally plus weight does
\* not fit 64 bits.
C18_Vote == [][VoteFollows(TRUE)]_vars

\* Witness of C18: a vote inside the window refused for the overflow of its
\* tally, after a vote that was counted.
C18_Witness ==
    /\ result = Res("vote", "MathOverflow")
    /\ proposals[1].status = "Active"
    /\ proposals[1].for_votes = 1500
    /\ now <= proposals[1].voting_ends_at

\* C19: create gives the k-th created proposal the id k, with status Pending,
\* the three tallies 0, voting_starts_at = now + voting_delay, voting_ends_at =
\* voting_starts_at + voting_period and sharia_approved true exactly when
\* affects_sharia is false; the other proposals are not touched, and the ids of
\* the existing proposals are 1 .. proposal_count, each used once.
C19_Create ==
    /\ [][\A f \in BOOLEAN :
            (result'.op = "create_proposal" /\ CreateProposal(f, Cardinality(ProposalKeys)))
            => LET k == dao.proposal_count + 1 IN
               /\ result'.err = "Ok"
               /\ dao'.proposal_count = k
               /\ ~proposals[k].exists
               /\ proposals'[k] =
                    [exists |-> TRUE, proposal_id |-> k, affects_sharia |-> f,
                     status |-> "Pending", created_at |-> now,
                     voting_starts_at |-> now + dao.voting_delay,
                     voting_ends_at |-> now + dao.voting_delay + dao.voting_period,
                     for_votes |-> 0, against_votes |-> 0, abstain_votes |-> 0,
                     sharia_approved |-> (f = FALSE)]
               /\ \A j \in ProposalKeys \ {k} : proposals'[j] = proposals[j]]_vars
    /\ [](\A k \in ProposalKeys :
            /\ proposals[k].exists <=> k <= dao.proposal_count
            /\ proposals[k].exists => proposals[k].proposal_id = k)

\* Witness of C19: the second proposal was created, with id 2, after the first
\* had been voted on.
C19_Witness ==
    /\ result = Res("create_proposal", "Ok")
    /\ proposals[2].exists /\ proposals[2].proposal_id = 2
    /\ proposals[2].affects_sharia /\ ~proposals[2].sharia_approved
    /\ proposals[2].voting_starts_at = now + VotingDelay
    /\ proposals[1].proposal_id = 1 /\ proposals[1].status = "Active"
    /\ proposals[1].for_votes > 0

\* C20: a review of a proposal that does not affect Sharia fails with
\* NotShariaRelevant and changes nothing, so an auto-approved flag is never
\* turned false; a review by a member who has not reviewed the proposal yet sets
\* sharia_approved to the supplied value and records the review; nothing but a
\* successful review changes the flag, so it equals the value of the most
\* recent review.
C20_Review ==
    /\ [][\A k \in ProposalKeys, m \in Members, f \in BOOLEAN :
            (result'.op = "sharia_review" /\ ShariaReview(k, m, f)
                /\ proposals[k].exists /\ ~HasReview(proposals[k].proposal_id, m))
            => IF ~proposals[k].affects_sharia
               THEN result'.err = "NotShariaRelevant" /\ UNCHANGED daoVars
               ELSE /\ result'.err = "Ok"
                    /\ proposals' = [proposals EXCEPT ![k].sharia_approved = f]
                    /\ reviews' = reviews \cup
                            {[proposal_id |-> proposals[k].proposal_id,
                              board_member |-> m, approved |-> f, timestamp |-> now]}
                    /\ dao' = dao]_vars
    /\ [][\A k \in ProposalKeys :
            (proposals[k].exists
                /\ proposals'[k].sharia_approved # proposals[k].sharia_approved)
            => result' = Res("sharia_review", "Ok")]_vars
    /\ [](\A k \in ProposalKeys :
            (proposals[k].exists /\ ~proposals[k].affects_sharia)
                => proposals[k].sharia_approved)

\* Witness of C20: approved by m1, then rejected by m2: the flag is false.
C20_Witness ==
    /\ result = Res("sharia_review", "Ok")
    /\ ~proposals[1].sharia_approved
    /\ \E r1, r2 \in reviews :
            /\ r1.board_member = "m1" /\ r1.approved
            /\ r2.board_member = "m2" /\ ~r2.approved
            /\ r1.timestamp < r2.timestamp

Terminal(status) == status = "Executed" \/ status = "Canceled"

\* C21: a proposal is immutable once Executed or Canceled: no operation changes
\* any field of it afterwards, in particular not the tallies and not
\* sharia_approved; hence every Executed proposal that affects Sharia has
\* sharia_approved = true in every later state.
C21_Immutable ==
    /\ [][\A k \in ProposalKeys :
            (proposals[k].exists /\ Terminal(proposals[k].status))
                => proposals'[k] = proposals[k]]_vars
    /\ [](\A k \in ProposalKeys :
            (proposals[k].exists /\ proposals[k].status = "Executed"
                /\ proposals[k].affects_sharia)
                => proposals[k].sharia_approved)

\* The score the counters and weights of h prescribe.
CounterScore(h) ==
    LET C == (h.compliant_activities * 10000) \div h.total_activities
        A == (h.asset_backed_activities * 10000) \div h.total_activities
        E == (h.economic_value_activities * 10000) \div h.total_activities
    IN Min(10000, (C * h.compliance_weight) \div 10000
                  + (A * h.asset_backing_weight) \div 10000
                  + (E * h.economic_value_weight) \div 10000
                  + (8000 * h.validator_participation_weight) \div 10000)

\* C22: after every successful track_activity, and after every successful
\* update_weights when total_activities > 0, current_score equals the score
\* computed from the counters and weights; an update_weights on a state with
\* total_activities = 0 leaves current_score unchanged.
C22_CounterScore ==
    /\ [][result' = Res("track_activity", "Ok")
            => /\ hai'.total_activities > 0
               /\ hai'.current_score = CounterScore(hai')]_vars
    /\ [][result' = Res("update_weights", "Ok")
            => IF hai.total_activities > 0
               THEN hai'.current_score = CounterScore(hai')
               ELSE hai'.current_score = hai.current_score]_vars

\* Witness of C22: the third activity is tracked, one of the three compliant,
\* under weights that do not divide evenly: the score is made of rounded parts.
C22_Witness ==
    /\ result = Res("track_activity", "Ok")
    /\ hai.total_activities = 3
    /\ hai.compliant_activities = 1
    /\ hai.asset_backed_activities = 2
    /\ hai.economic_value_activities = 3
    /\ hai.compliance_weight = 3333
    /\ hai.current_score = 1110 + 2221 + 3333 + 0

\* The authoritative score of h: computed from the counters, and the stored
\* score while nothing has been tracked.
AuthoritativeScore(h) ==
    IF h.total_activities = 0 THEN h.current_score ELSE CounterScore(h)

\* C23: the source-sampling path does not replace the authoritative score: after
\* update_hai_score_with_vrf, with any data sources and any randomness, the
\* stored current_score is still the value of the counter-based computation; the
\* bonus per source is never written into it.
C23_VrfKeepsScore ==
    [][result' = Res("update_hai_score_with_vrf", "Ok")
        => hai'.current_score = AuthoritativeScore(hai)]_vars

\* The delta the rules give an activity at the time clock.
ImpactRule(activity, clock) ==
    CASE activity.outcome > 0 /\ activity.is_validated ->
            IF clock - activity.created_at > 2592000 THEN 75 ELSE 50
      [] activity.outcome < 0 ->
            IF clock - activity.created_at > 2592000 THEN 0 ELSE -25
      [] OTHER ->
            IF clock - activity.created_at > 2592000 THEN 25 ELSE 0

\* C24: the delta of the automatic score update is +50 for a validated profit,
\* -25 for a loss, plus 25 for an activity older than 30 days, so it is one of
\* -25, 0, 25, 50, 75; the new score is the old score plus the delta, not below
\* 0 and not above 10000.
C24_ScoreImpact ==
    [][\A a \in ActionActivityIds :
        (result'.op = "update_hai_action" /\ UpdateHaiAction(a))
        => LET delta == ImpactRule(action_activity[a], now)
               sum == hai_state.current_score + delta
           IN /\ delta \in {-25, 0, 25, 50, 75}
              /\ hai_state'.current_score
                    = (IF sum < 0 THEN 0 ELSE IF sum > 10000 THEN 10000 ELSE sum)]_vars

\* Witness of C24: a validated profit older than 30 days has raised the score by
\* 75, after a loss-free start below the upper end.
C24_Witness ==
    /\ result = Res("update_hai_action", "Ok")
    /\ action_activity["x"].outcome > 0 /\ action_activity["x"].is_validated
    /\ ~action_activity["y"].is_validated
    /\ now - action_activity["x"].created_at > LongTermDuration
    /\ hai_state.current_score = 5075
    /\ hai_state.last_updated = now

\* C25: the ledger never records capital it has not received: in every state,
\* total_capital plus the capital deployed in activities not yet completed is at
\* most the value held in custody, which is what join and deposit transferred in
\* less what withdraw transferred out.
C25_LedgerWithinCustody ==
    reserve.total_capital + DeployedOut <= NetContributions

\* The instruction passed its requirements and came to its arithmetic.
ReachedArithmetic == result'.err \in {"Ok", "MathOverflow", "Panic"}

\* Checked arithmetic: a new total_capital outside the unsigned 64-bit range is
\* refused with MathOverflow and nothing changes; otherwise it is stored as it is.
CheckedTotal(total) ==
    IF total < 0 \/ total > U64_MAX
    THEN result'.err = "MathOverflow" /\ UNCHANGED reserveVars
    ELSE result'.err = "Ok" /\ reserve'.total_capital = total

\* C26: every mutation of total_capital, participant_count and
\* capital_contributed in join, deposit, withdraw, approve and complete is
\* checked: a result above the unsigned 64-bit range or below 0 makes the
\* instruction fail with MathOverflow, changing nothing, and no state holds a
\* wrapped or truncated balance.
C26_CheckedArithmetic ==
    [][/\ \A u \in Users, amount \in Amounts :
            (result'.op = "join_reserve" /\ JoinReserve(u, amount) /\ ReachedArithmetic)
            => /\ CheckedTotal(reserve.total_capital + amount)
               /\ result'.err = "Ok"
                    => /\ reserve'.participant_count = reserve.participant_count + 1
                       /\ participants'[u].capital_contributed = amount
       /\ \A u \in Users, amount \in Amounts :
            (result'.op = "deposit_capital" /\ DepositCapital(u, amount)
                /\ ReachedArithmetic)
            => /\ CheckedTotal(reserve.total_capital + amount)
               /\ result'.err = "Ok"
                    => participants'[u].capital_contributed
                            = participants[u].capital_contributed + amount
       /\ \A u \in Users, amount \in Amounts :
            (result'.op = "withdraw_capital" /\ WithdrawCapital(u, amount)
                /\ ReachedArithmetic)
            => /\ CheckedTotal(reserve.total_capital - amount)
               /\ result'.err = "Ok"
                    => participants'[u].capital_contributed
                            = participants[u].capital_contributed - amount
       /\ \A a \in ActivityIds :
            (result'.op = "approve_activity" /\ ApproveActivity(a) /\ ReachedArithmetic)
            => CheckedTotal(reserve.total_capital - activities[a].capital_required)
       /\ \A a \in ActivityIds, outcome \in Outcomes :
            (result'.op = "complete_activity" /\ CompleteActivity(a, outcome)
                /\ ReachedArithmetic)
            => CheckedTotal(reserve.total_capital
                    + SettlementDelta(activities[a].capital_deployed, outcome))]_vars

\* C27: a failed vote applies no mutation.  A vote on a Pending proposal after
\* voting_ends_at fails with VotingEnded and leaves the proposal Pending with
\* its tallies; no vote that returns an error changes a proposal, so none
\* promotes it from Pending to Active.
C27_FailedVote ==
    [][\A k \in ProposalKeys, t \in VoteTypes, w \in VoteWeights :
        (result'.op = "vote" /\ Vote(k, t, w) /\ proposals[k].exists)
        => /\ (proposals[k].status = "Pending" /\ now > proposals[k].voting_ends_at)
                => /\ result'.err = "VotingEnded"
                   /\ proposals'[k].status = "Pending"
                   /\ proposals'[k] = proposals[k]
           /\ result'.err # "Ok" => UNCHANGED daoVars]_vars

\* Witness of C27: a vote after the window failed on a proposal nobody voted on
\* in time: it is still Pending, with empty tallies.
C27_Witness ==
    /\ result = Res("vote", "VotingEnded")
    /\ proposals[1].exists /\ proposals[1].status = "Pending"
    /\ now > proposals[1].voting_ends_at
    /\ proposals[1].for_votes = 0 /\ proposals[1].against_votes = 0
    /\ proposals[1].abstain_votes = 0

\* The vote on proposal k is over and was not won.
Lost(k) ==
    /\ proposals[k].exists /\ proposals[k].status = "Active"
    /\ now > proposals[k].voting_ends_at
    /\ proposals[k].for_votes <= proposals[k].against_votes

\* C28: an execute that fails with ShariaNotApproved, QuorumNotMet or
\* ProposalFailed leaves the proposal Active with all fields unchanged, and in
\* the state it leaves a cancel succeeds; a proposal whose vote is over with
\* for_votes <= against_votes is never executed: it stays Active, with the same
\* tallies, until it is canceled.
C28_FailedExecute ==
    /\ [][\A k \in ProposalKeys :
            (result'.op = "execute_proposal" /\ ExecuteProposal(k)
                /\ result'.err \in {"ShariaNotApproved", "QuorumNotMet", "ProposalFailed"})
            => /\ UNCHANGED daoVars
               /\ proposals'[k].status = "Active"
               /\ (cancel_proposal(k).err)' = "Ok"
               /\ (cancel_proposal(k).st.proposals[k].status)' = "Canceled"]_vars
    /\ [][\A k \in ProposalKeys :
            Lost(k) => \/ Lost(k)' /\ proposals'[k].for_votes = proposals[k].for_votes
                                   /\ proposals'[k].against_votes = proposals[k].against_votes
                       \/ /\ proposals'[k].status = "Canceled"
                          /\ result' = Res("cancel_proposal", "Ok")]_vars
    /\ [][\A k \in ProposalKeys :
            (result'.op = "execute_proposal" /\ ExecuteProposal(k) /\ Lost(k))
                => result'.err # "Ok"]_vars

\* Witness of C28: the execution of a proposal with more votes against than for
\* was refused with ProposalFailed; the proposal is still Active.
C28_Witness ==
    /\ result = Res("execute_proposal", "ProposalFailed")
    /\ Lost(1)
    /\ proposals[1].against_votes > proposals[1].for_votes
    /\ cancel_proposal(1).err = "Ok"

\* C29: reviews are append-only per (proposal, board member): a member records
\* at most one review for a proposal; a second attempt by the same member for
\* the same proposal fails, leaves the recorded review untouched and does not
\* change sharia_approved.
C29_OneReview ==
    /\ [][\A k \in ProposalKeys, m \in Members, f \in BOOLEAN :
            (result'.op = "sharia_review" /\ ShariaReview(k, m, f)
                /\ proposals[k].exists /\ HasReview(proposals[k].proposal_id, m))
            => /\ result'.err # "Ok"
               /\ reviews' = reviews
               /\ proposals'[k].sharia_approved = proposals[k].sharia_approved
               /\ UNCHANGED daoVars]_vars
    /\ [][reviews \subseteq reviews']_vars
    /\ [](\A r1, r2 \in reviews :
            (r1.proposal_id = r2.proposal_id /\ r1.board_member = r2.board_member)
                => r1 = r2)

\* Witness of C29: m1 approved, m2 rejected, and a second attempt of a member
\* was refused: both reviews stand and the flag is the one m2 set.
C29_Witness ==
    /\ result = Res("sharia_review", "AccountInUse")
    /\ Cardinality(reviews) = 2
    /\ \E r \in reviews : r.board_member = "m1" /\ r.approved /\ r.timestamp = 0
    /\ \E r \in reviews : r.board_member = "m2" /\ ~r.approved /\ r.timestamp = 1
    /\ ~proposals[1].sharia_approved
    /\ now = 2

\* C30: the compliance action is idempotent: run again on the same activity at
\* the same time, it gives the same verdict and leaves the compliance accounts as
\* the first run left them; a Compliant verdict sets is_compliant = true and
\* verified_at = now, a Flagged verdict sets requires_review = true and
\* flagged_at = now.
C30_Idempotent ==
    [][\A a \in ActionActivityIds, c \in ComplianceIds :
        (result'.op = "check_compliance_action" /\ CheckComplianceAction(a, c))
        => LET verdict == check_compliance_action(a, c).verdict IN
           /\ (check_compliance_action(a, c).verdict)' = verdict
           /\ (check_compliance_action(a, c).compliance_state)' = compliance_state'
           /\ verdict = "Compliant"
                => /\ compliance_state'[c].is_compliant
                   /\ compliance_state'[c].verified_at = now
           /\ verdict = "Flagged"
                => /\ compliance_state'[c].requires_review
                   /\ compliance_state'[c].flagged_at = now]_vars

\* Witness of C30: an account flagged before the holding period had passed was
\* run again after it, and is now marked compliant at the current time.
C30_Witness ==
    /\ result = Res("check_compliance_action", "Ok")
    /\ compliance_state["c1"].requires_review
    /\ compliance_state["c1"].flagged_at < now
    /\ compliance_state["c1"].is_compliant
    /\ compliance_state["c1"].verified_at = now
    /\ compliance_state["c2"] = NoComplianceState

\* C31: cancel_proposal is a veto of the admin and the board: called by any
\* other identity it fails and leaves the status of the proposal unchanged.
C31_CancelAuthority ==
    [][\A authority \in Signers, k \in ProposalKeys :
        (result'.op = "cancel_proposal" /\ CancelProposalBy(authority, k)
            /\ authority \notin {DaoAdmin} \cup Members)
        => /\ result'.err # "Ok"
           /\ proposals'[k].status = proposals[k].status]_vars

\* The number of sources the sampling takes from n sources with randomness r.
SelectionCount(r, n) == Min((r % 3) + 1, n)

\* C32: source sampling.  From a non-empty list of n sources and randomness r
\* the sampling returns the sources at the indices (r + i) mod n for
\* i = 0 .. min((r mod 3) + 1, n) - 1, exactly min((r mod 3) + 1, n) of them;
\* from an empty list it returns none and the score is the counter-based value.
\* The new score is the base score plus 50 per selected source, capped at 10000.
C32_Sampling ==
    [][\A ds \in DataSources :
        (result'.op = "update_hai_score_with_vrf" /\ UpdateHaiScoreWithVrf(ds))
        => LET r == now % 100
               n == Len(ds)
               selected == select_data_sources_with_randomness(ds, r)
           IN /\ Len(selected) = SelectionCount(r, n)
              /\ \A i \in 1..SelectionCount(r, n) : selected[i] = ds[((r + i - 1) % n) + 1]
              /\ Len(selected) <= 3
              /\ n > 0 => Len(selected) >= 1
              /\ result'.err = "Ok"
              /\ hai'.current_score
                    = (IF n = 0 THEN calculate_hai_score(hai)
                       ELSE Min(calculate_hai_score(hai) + 50 * SelectionCount(r, n),
                                10000))]_vars

Tallies(p) == <<p.for_votes, p.against_votes, p.abstain_votes>>

\* C33: the tallies are final once the window has closed: the clock does not go
\* back, and in a state with now > voting_ends_at no operation changes
\* for_votes, against_votes or abstain_votes or moves the end of the window, so
\* every execute sees the same tallies; and no vote is counted at a time at
\* which the time check of execute passes.
C33_TalliesFinal ==
    /\ [][now' >= now]_vars
    /\ [][\A k \in ProposalKeys :
            (proposals[k].exists /\ now > proposals[k].voting_ends_at)
            => /\ Tallies(proposals'[k]) = Tallies(proposals[k])
               /\ proposals'[k].voting_ends_at = proposals[k].voting_ends_at]_vars
    /\ [][\A k \in ProposalKeys :
            (result' = Res("vote", "Ok") /\ proposals'[k] # proposals[k])
            => ~(now > proposals[k].voting_ends_at)]_vars

\* Witness of C33: a vote after the window was refused on a proposal that had
\* been voted on inside the window.
C33_Witness ==
    /\ result = Res("vote", "VotingEnded")
    /\ proposals[1].status = "Active"
    /\ now > proposals[1].voting_ends_at
    /\ proposals[1].for_votes = 1500 /\ proposals[1].against_votes = 1500

\* C34: a voter contributes to the tallies of a proposal at most once: a second
\* vote of the same voter on the same proposal inside the voting window fails
\* and leaves the tallies unchanged.  Where v1 is the only voter, a proposal is
\* Active exactly when v1 has voted on it, since nothing but a successful vote
\* makes a proposal Active.
C34_OneVotePerVoter ==
    [][\A t \in VoteTypes, w \in VoteWeights :
        (result'.op = "vote" /\ VoteBy("v1", 1, t, w)
            /\ proposals[1].exists /\ proposals[1].status = "Active"
            /\ now <= proposals[1].voting_ends_at)
        => /\ result'.err # "Ok"
           /\ Tallies(proposals'[1]) = Tallies(proposals[1])]_vars

\* C35: every created proposal stays addressable: the key create_proposal
\* stores a proposal under, derived from the proposal counter, equals the key
\* vote, sharia_review, execute_proposal and cancel_proposal derive from the
\* stored proposal_id; and no two proposals share a key.  The k-th proposal is
\* created while proposal_count is k - 1.
C35_Addressable ==
    /\ [][\A f \in BOOLEAN :
            (result' = Res("create_proposal", "Ok")
                /\ CreateProposal(f, Cardinality(ProposalKeys)))
            => access_seed(proposals'[dao'.proposal_count])
                    = create_seed(dao.proposal_count)]_vars
    /\ [](\A k \in ProposalKeys :
            proposals[k].exists => access_seed(proposals[k]) = create_seed(k - 1))
    /\ [](\A j, k \in ProposalKeys :
            (proposals[j].exists /\ proposals[k].exists /\ j # k)
                => create_seed(j - 1) # create_seed(k - 1))

\* C36: snapshots are repeatable: every create_snapshot on the initialized
\* score state succeeds, the snapshot it makes has a snapshot_id no earlier
\* snapshot has, it records the score and the counters of that moment, and the
\* score and the counters of the Hai account stay as they were.
C36_SnapshotsRepeatable ==
    [][CreateSnapshot =>
        /\ result'.err = "Ok"
        /\ hai' = hai
        /\ \E s \in SnapshotSeeds :
            /\ ~snapshots[s].exists
            /\ snapshots'[s].exists
            /\ snapshots'[s].score = hai.current_score
            /\ snapshots'[s].total_activities = hai.total_activities
            /\ snapshots'[s].compliant_activities = hai.compliant_activities
            /\ snapshots'[s].asset_backed_activities = hai.asset_backed_activities
            /\ \A t \in SnapshotSeeds \ {s} :
                snapshots[t].exists => snapshots[t].snapshot_id # snapshots'[s].snapshot_id]_vars

\* C37: the verdicts of the compliance action are exclusive: no compliance
\* account is ever both is_compliant and requires_review, and after a run the
\* two flags show the verdict of that run only.
C37_VerdictsExclusive ==
    /\ [](\A c \in ComplianceIds :
            ~(compliance_state[c].is_compliant /\ compliance_state[c].requires_review))
    /\ [][\A a \in ActionActivityIds, c \in ComplianceIds :
            (result'.op = "check_compliance_action" /\ CheckComplianceAction(a, c))
            => LET verdict == check_compliance_action(a, c).verdict IN
               /\ verdict = "Compliant"
                    => /\ compliance_state'[c].is_compliant
                       /\ ~compliance_state'[c].requires_review
               /\ verdict = "Flagged"
                    => /\ compliance_state'[c].requires_review
                       /\ ~compliance_state'[c].is_compliant]_vars

\* The capital of an activity is out of the reserve: taken and not yet settled.
CapitalOut(activity) == activity.exists /\ activity.status \in {"Approved", "Active"}

\* C38: per activity, capital is taken out of the reserve at most once and
\* returned at most once: approve_activity and deploy_capital_realtime succeed
\* (and decrease total_capital) only on an activity whose capital was never
\* taken, capital_deployed is not overwritten while the capital is out, and
\* complete_activity does not succeed on a completed activity.
C38_CapitalOnce ==
    [][\A a \in ActivityIds :
        /\ (result' = Res("approve_activity", "Ok") /\ ApproveActivity(a))
            => activities[a].status = "Proposed"
        /\ \A amount \in RealtimeAmounts :
            (result' = Res("deploy_capital_realtime", "Ok")
                /\ DeployCapitalRealtime(a, amount))
            => /\ activities[a].status = "Proposed"
               /\ reserve'.total_capital = reserve.total_capital - amount
        /\ \A outcome \in Outcomes :
            (result' = Res("complete_activity", "Ok") /\ CompleteActivity(a, outcome))
            => activities[a].status # "Completed"
        /\ (CapitalOut(activities[a]) /\ CapitalOut(activities'[a]))
            => activities'[a].capital_deployed = activities[a].capital_deployed
        /\ (activities[a].exists /\ activities[a].status # "Proposed")
            => activities'[a].status # "Proposed"]_vars

\* C39: the profit of an activity is credited to total_capital at most once:
\* once distribute_profits_action has run on an activity, a further run on it
\* adds nothing; it fails with NoProfit when the outcome is not positive, and
\* it ends in no other way than Ok or NoProfit.
C39_ProfitOnce ==
    [][\A a \in ActionActivityIds :
        (result'.op = "distribute_profits_action" /\ DistributeProfitsAction(a))
        => /\ result'.err \in {"Ok", "NoProfit"}
           /\ ~(action_activity[a].outcome > 0)
                => /\ result'.err = "NoProfit"
                   /\ action_reserve' = action_reserve
           /\ action_reserve'.total_capital - action_reserve.total_capital
                \in {0, action_activity[a].outcome}
           /\ (distribute_profits_action(a).reserve.total_capital)'
                = action_reserve'.total_capital]_vars

\* A proposal without a successful vote whose voting window is over: a
\* successful vote makes a proposal Active, so it is still Pending.
Unvoted(p) == p.exists /\ p.status = "Pending" /\ now > p.voting_ends_at

\* C40: a proposal that received no successful vote inside its voting window
\* stays Pending: every later vote fails with VotingEnded, every execute fails
\* with InvalidProposalStatus, it can be canceled, and no step takes it to a
\* status other than Canceled; execute returns QuorumNotMet only for an Active
\* proposal whose tallies are all 0.
C40_UnvotedStaysPending ==
    /\ [](\A k \in ProposalKeys :
            Unvoted(proposals[k])
            => /\ \A t \in VoteTypes, w \in VoteWeights : vote(k, t, w).err = "VotingEnded"
               /\ execute_proposal(k).err = "InvalidProposalStatus"
               /\ cancel_proposal(k).err = "Ok")
    /\ [][\A k \in ProposalKeys :
            /\ Unvoted(proposals[k])
                => /\ proposals'[k].status \in {"Pending", "Canceled"}
                   /\ Tallies(proposals'[k]) = <<0, 0, 0>>
            /\ (result' = Res("execute_proposal", "QuorumNotMet") /\ ExecuteProposal(k))
                => /\ proposals[k].status = "Active"
                   /\ Tallies(proposals[k]) = <<0, 0, 0>>]_vars

\* Witness of C40: after the end of the window a vote on a proposal nobody
\* voted on was refused, and the proposal is still Pending without votes.
C40_Witness ==
    /\ result = Res("vote", "VotingEnded")
    /\ Unvoted(proposals[1])
    /\ Tallies(proposals[1]) = <<0, 0, 0>>

====
